---- MODULE Spec2Model ----
(***************************************************************************)
(* NotionLinks: the synchronisation, caching and query subsystem.          *)
(*                                                                         *)
(*   server.js (lines 285-896, the caching/rate-limiting server)           *)
(*     rate limiter, page cache, single-flight sync flag, the              *)
(*     GET /api/bookmarks handler and fetchAllBookmarks                    *)
(*   public/js/api.js     ApiService.fetchWithRetry / classifyError        *)
(*   public/script.js     DataManager (lines 831-1127, the later variant)  *)
(*                                                                         *)
(* Clocks count abstract ticks.                                            *)
(***************************************************************************)
EXTENDS Integers, Sequences, FiniteSets, TLC

VARIABLES
    now,             \* server: Date.now(), in ticks
    rateLimitStore,  \* server: Map clientIP -> array of request timestamps
    dataCache,       \* server: Map key -> {data, timestamp}, in insertion order
    syncState,       \* server: {lastSyncTime, totalPages, isSyncing}
    inflight,        \* server: the fetchAllBookmarks invocations not yet returned
    last,            \* server: what the step just taken answered, if anything
    served,          \* history: per cache key, the data and time of the latest
                     \*   successful fetch response not since cleared or evicted
    admits,          \* history: per identity, the admission times still inside
                     \*   the rate-limit window
    isOnline,        \* client: ApiService.networkStatus.isOnline
    rpc,             \* client: where the fetchWithRetry call stands
    retryCount,      \* client: fetchWithRetry's retryCount argument
    attempts,        \* client: fetch() calls issued by the current call
    delays,          \* client: the backoff waits of the current call, in ms
    events,          \* history: how each pass through the try block ended
    result,          \* client: what the call returned or threw
    allBookmarks,      \* DataManager.allBookmarks
    filteredBookmarks, \* DataManager.filteredBookmarks
    currentCategory,   \* DataManager.currentCategory
    currentTags,       \* DataManager.currentTags
    searchQuery,       \* DataManager.searchQuery
    viewCache,         \* DataManager.cache: Map key -> {data, timestamp}
    viewFromCache,     \* history: the last filterBookmarks answered from the cache
    clock,             \* browser: Date.now(), in ticks
    upstream,          \* history: the upstream failure that ended the last fetch
    apiCache,          \* ApiService.cache: Map key -> data, in Map order
    cacheTimestamps,   \* ApiService.cacheTimestamps: Map key -> Date.now()
    entered,           \* history: per key, the number of the setCache call that
                       \*   put the key into the Map (0 while it is not there)
    sets,              \* history: setCache calls so far
    evicted,           \* history: the key the last setCache removed for room
    lookup,            \* history: the last getFromCache call and its answer
    notionPage,        \* server: the properties of an upstream page
    normalized,        \* server: the bookmark made of it
    syncBtnDisabled,   \* page: uiManager.elements.syncBtn.disabled
    isRefreshing,      \* page: pullToRefresh.isRefreshing
    loads,             \* page: the getBookmarks calls awaited, in starting order
    lastEvent,         \* history: what the last handler run did
    lastCompleted,     \* history: the last setBookmarks call made by a load
    searchDebounceTimer,  \* page: eventManager.searchDebounceTimer
    lastInput,         \* history: the last input event of the search box
    searchApplied,     \* history: the setSearchQuery calls made for the input
                       \*   events since the last of them, and the last call
    responseBody,      \* client: the body of the response fetchWithRetry returned
    latestSync,        \* history: the cache key written by the latest
                       \*   successful fetch of the server
    paged,             \* server: the query of a request, the page number and
                       \*   size parsed from it, and the page sliced for it
    appRetryCount,     \* page: BookmarkApp.retryCount
    appTimers,         \* page: the setTimeout callbacks of BookmarkApp pending
    booting,           \* page: what BookmarkApp is awaiting
    scheduled          \* history: the re-attempts BookmarkApp has scheduled,
                       \*   and what the last error handler did

serverVars == <<now, rateLimitStore, dataCache, syncState, inflight, last,
                served, admits>>

retryVars == <<isOnline, rpc, retryCount, attempts, delays, events, result>>

dataVars == <<allBookmarks, filteredBookmarks, currentCategory, currentTags,
              searchQuery, viewCache, viewFromCache, clock>>

errorVars == <<upstream>>

apiVars == <<apiCache, cacheTimestamps, entered, sets, evicted, lookup>>

pageVars == <<notionPage, normalized>>

appVars == <<syncBtnDisabled, isRefreshing, loads, lastEvent, lastCompleted>>

searchVars == <<searchDebounceTimer, lastInput, searchApplied>>

syncVars == <<responseBody>>

trackVars == <<latestSync>>

pagingVars == <<paged>>

bootVars == <<appRetryCount, appTimers, booting, scheduled>>

vars == <<now, rateLimitStore, dataCache, syncState, inflight, last, served, admits,
          isOnline, rpc, retryCount, attempts, delays, events, result,
          allBookmarks, filteredBookmarks, currentCategory, currentTags,
          searchQuery, viewCache, viewFromCache, clock, upstream,
          apiCache, entered, sets, evicted, lookup, notionPage, normalized,
          syncBtnDisabled, isRefreshing, loads, lastEvent, lastCompleted,
          searchDebounceTimer, lastInput, searchApplied, responseBody,
          latestSync, paged, appRetryCount, appTimers, booting, scheduled>>

\* what the steps of one part of the program leave alone
outsideServer ==
    <<retryVars, dataVars, errorVars, apiVars, pageVars, appVars, searchVars,
     syncVars, trackVars, pagingVars,
     bootVars>>
outsideRetry ==
    <<serverVars, dataVars, errorVars, apiVars, pageVars, appVars, searchVars,
     syncVars, trackVars, pagingVars,
     bootVars>>
outsideData ==
    <<serverVars, retryVars, errorVars, apiVars, pageVars, appVars, searchVars,
     syncVars, trackVars, pagingVars,
     bootVars>>
outsideApi ==
    <<serverVars, retryVars, dataVars, errorVars, pageVars, appVars, searchVars,
     syncVars, trackVars, pagingVars,
     bootVars>>
outsidePage ==
    <<serverVars, retryVars, dataVars, errorVars, apiVars, appVars, searchVars,
     syncVars, trackVars, pagingVars,
     bootVars>>
outsideApp ==
    <<serverVars, retryVars, dataVars, errorVars, apiVars, pageVars, searchVars,
     syncVars, trackVars, pagingVars,
     bootVars>>
outsideAppData ==
    <<serverVars, retryVars, errorVars, apiVars, pageVars, searchVars,
     syncVars, trackVars, pagingVars,
     bootVars>>
outsideSearch ==
    <<serverVars, retryVars, errorVars, apiVars, pageVars, appVars, syncVars,
     trackVars, pagingVars,
     bootVars>>

----------------------------------------------------------------------------
(* Bounds of the model *)

(* The server's clock counts ticks; the source's limits are scaled down. *)
MaxTime == 3          \* the server clock stops here
windowMs == 2         \* RATE_LIMIT.windowMs (60 * 1000 ms in the source)
duration == 1         \* CACHE_CONFIG.duration (5 * 60 * 1000 ms in the source)
incrementalMs == 2    \* "timeSinceLastSync < 60000" (ms in the source)
maxRequests == 2      \* RATE_LIMIT.maxRequests (30 in the source)
maxSize == 2          \* CACHE_CONFIG.maxSize (1000 in the source)
maxPages == 2         \* fetchAllBookmarks' maxPages (50 in the source)
MaxInflight == 2      \* fetchAllBookmarks invocations the model lets overlap

(* Program constants *)
limitCap == 100       \* Math.min(parseInt(limit), 100)
NoSync == -1          \* syncState.lastSyncTime = null

ClientIPs == {"ip1"}
PageNums == {1, 2}
Limits == {1}
Recs == {1}               \* upstream records
Null == "null"            \* next_cursor: null
Absent == "absent"        \* a request body without start_cursor
Cursors == {"c1", "c2"}   \* next_cursor values

Min(a, b) == IF a < b THEN a ELSE b

CeilDiv(n, d) == (n + d - 1) \div d

\* Array.prototype.slice(startIndex, endIndex) with 0-based, end-exclusive
\* indices, on a 1-based sequence
\* (a negative index counts from the end)
Slice(s, startIndex, endIndex) ==
    LET rel(k) == IF k < 0 THEN (IF Len(s) + k < 0 THEN 0 ELSE Len(s) + k)
                  ELSE Min(k, Len(s))
        lo == rel(startIndex)
        hi == rel(endIndex)
    IN  IF hi <= lo THEN <<>> ELSE SubSeq(s, lo + 1, hi)

----------------------------------------------------------------------------
(* Rate limiter: isRateLimited *)

\* mutant: a timestamp exactly windowMs old still counts
ValidRequests_inclusive(requests, t) ==
    SelectSeq(requests, LAMBDA timestamp : timestamp >= t - windowMs)

\* requests.filter(timestamp => timestamp > windowStart)
ValidRequests(requests, t) ==
    SelectSeq(requests, LAMBDA timestamp : timestamp > t - windowMs)

StoredRequests(clientIP) ==
    IF clientIP \in DOMAIN rateLimitStore THEN rateLimitStore[clientIP] ELSE <<>>

\* the value isRateLimited returns
isRateLimited(clientIP) ==
    Len(ValidRequests(StoredRequests(clientIP), now)) >= maxRequests

\* mutant: an admitted request is not recorded
RateStoreAfter_norecord(clientIP) ==
    [ip \in DOMAIN rateLimitStore \cup {clientIP} |->
        ValidRequests(StoredRequests(ip), now)]

\* mutant: the stored timestamps are not filtered and the request is recorded
RateStoreAfter_nofilter(clientIP) ==
    [ip \in DOMAIN rateLimitStore \cup {clientIP} |->
        IF ip = clientIP THEN Append(StoredRequests(clientIP), now)
        ELSE rateLimitStore[ip]]

\* rateLimitStore after isRateLimited(clientIP) has run
RateStoreAfter(clientIP) ==
    LET validRequests == ValidRequests(StoredRequests(clientIP), now)
        kept == IF Len(validRequests) >= maxRequests
                THEN validRequests
                ELSE Append(validRequests, now)
    IN  [ip \in DOMAIN rateLimitStore \cup {clientIP} |->
            IF ip = clientIP THEN kept ELSE rateLimitStore[ip]]

\* the 5-minute timer that sweeps rateLimitStore
RateSweepResult ==
    LET live == {ip \in DOMAIN rateLimitStore :
                    Len(ValidRequests(rateLimitStore[ip], now)) > 0}
    IN  [ip \in live |-> ValidRequests(rateLimitStore[ip], now)]

----------------------------------------------------------------------------
(* Page cache: getFromCache / setCache / clearCache *)

cacheKey(pageNum, pageSize) == <<"bookmarks", pageNum, pageSize>>

CacheKeys(cache) == {cache[i].key : i \in 1..Len(cache)}

CacheEntry(cache, key) ==
    cache[CHOOSE i \in 1..Len(cache) : cache[i].key = key]

\* mutant: the TTL comparison is reversed
CacheValid_reversed(cache, key) ==
    /\ key \in CacheKeys(cache)
    /\ now - CacheEntry(cache, key).timestamp > duration

\* cached && Date.now() - cached.timestamp < CACHE_CONFIG.duration
CacheValid(cache, key) ==
    /\ key \in CacheKeys(cache)
    /\ now - CacheEntry(cache, key).timestamp < duration

CacheDelete(cache, key) == SelectSeq(cache, LAMBDA e : e.key # key)

\* dataCache after getFromCache(key): a miss deletes the key
CacheAfterGet(cache, key) ==
    IF CacheValid(cache, key) THEN cache ELSE CacheDelete(cache, key)

\* Map.set: an existing key keeps its place, a new key goes last
MapSet(cache, key, data) ==
    LET entry == [key |-> key, data |-> data, timestamp |-> now]
    IN  IF key \in CacheKeys(cache)
        THEN [i \in 1..Len(cache) |->
                 IF cache[i].key = key THEN entry ELSE cache[i]]
        ELSE Append(cache, entry)

\* mutant: no entry is deleted for room
setCache_noroom(cache, key, data) == MapSet(cache, key, data)

\* dataCache after setCache(key, data)
setCache(cache, key, data) ==
    LET trimmed == IF Len(cache) >= maxSize THEN Tail(cache) ELSE cache
    IN  MapSet(trimmed, key, data)

\* mutant: the sweep drops every entry that is not of this very moment
CacheSweepResult_eager(cache) ==
    SelectSeq(cache, LAMBDA e : ~(now - e.timestamp >= 0))

\* the cleanupInterval timer: drops entries with now - timestamp > duration
CacheSweepResult(cache) ==
    SelectSeq(cache, LAMBDA e : ~(now - e.timestamp > duration))

----------------------------------------------------------------------------
(* GET /api/bookmarks *)

\* const pageSize = Math.min(parseInt(limit), 100)
PageSizeOf(limit) == Min(limit, limitCap)

\* isIncremental && syncState.lastSyncTime && timeSinceLastSync < 60000
SkipIncremental(incremental) ==
    /\ incremental
    /\ syncState.lastSyncTime # NoSync
    /\ now - syncState.lastSyncTime < incrementalMs

\* mutant: the cache answers only while no sync is in flight
CacheAnswers_idleonly(force, key) ==
    ~force /\ CacheValid(dataCache, key) /\ ~syncState.isSyncing

\* if (!isForceRefresh) { ... if (cachedData) return res.json(...) } (lines 477-493)
CacheAnswers(force, key) == ~force /\ CacheValid(dataCache, key)

\* mutant: the in-progress check is missing
SyncBusy_never == FALSE

\* if (syncState.isSyncing) return res.status(409)
SyncBusy == syncState.isSyncing

NoData == <<>>

\* what a handler step answered: status 0 stands for "no answer yet, the
\* fetch has been started"; a step that answers nothing leaves NoReply
Reply(kind, pageNum, pageSize, force, status, body) ==
    [kind |-> kind, pageNum |-> pageNum, pageSize |-> pageSize,
     force |-> force, status |-> status,
     fromCache |-> body.fromCache, data |-> body.data,
     totalPages |-> body.totalPages, hasMore |-> body.hasMore,
     hasTotalCount |-> body.hasTotalCount]

EmptyBody ==
    [fromCache |-> FALSE, data |-> NoData, totalPages |-> 0, hasMore |-> FALSE,
     hasTotalCount |-> FALSE]

NoReply == Reply("none", 0, 0, FALSE, 0, EmptyBody)

\* the body of a cache hit (lines 482-491): no totalCount field
CachedBody(cachedData) ==
    [fromCache |-> TRUE, data |-> cachedData.bookmarks,
     totalPages |-> cachedData.totalPages, hasMore |-> cachedData.hasMore,
     hasTotalCount |-> FALSE]

\* mutant: the first page starts after pageSize records
PageOf_zerobased(bookmarks, pageNum, pageSize) ==
    LET totalCount == Len(bookmarks)
        totalPages == CeilDiv(totalCount, pageSize)
        startIndex == pageNum * pageSize
        endIndex == startIndex + pageSize
        pageBookmarks == Slice(bookmarks, startIndex, endIndex)
    IN  [bookmarks |-> pageBookmarks, count |-> Len(pageBookmarks),
         totalPages |-> totalPages, hasMore |-> pageNum < totalPages]

\* the page computed from a fetched list (lines 526-548)
PageOf(bookmarks, pageNum, pageSize) ==
    LET totalCount == Len(bookmarks)
        totalPages == CeilDiv(totalCount, pageSize)
        startIndex == (pageNum - 1) * pageSize
        endIndex == startIndex + pageSize
        pageBookmarks == Slice(bookmarks, startIndex, endIndex)
    IN  [bookmarks |-> pageBookmarks, count |-> Len(pageBookmarks),
         totalPages |-> totalPages, hasMore |-> pageNum < totalPages]

FreshBody(p) ==
    [fromCache |-> FALSE, data |-> p.bookmarks, totalPages |-> p.totalPages,
     hasMore |-> p.hasMore, hasTotalCount |-> TRUE]

\* a fetchAllBookmarks invocation right after its first page request went out
NewFetch(pageNum, pageSize) ==
    [pageNum |-> pageNum, pageSize |-> pageSize,
     pageCount |-> 1, hasMore |-> TRUE, awaiting |-> "response",
     allBookmarks |-> <<>>, startCursor |-> Null, sent |-> Absent,
     lastNext |-> Null]

\* the history of admissions, kept by the claim's own window rule
AdmitsOf(clientIP) ==
    IF clientIP \in DOMAIN admits THEN admits[clientIP] ELSE <<>>

RecordAdmit(clientIP) ==
    [ip \in DOMAIN admits \cup {clientIP} |->
        IF ip = clientIP THEN Append(AdmitsOf(clientIP), now) ELSE admits[ip]]

\* the whole synchronous part of the handler, up to its first await
HandleRequest(clientIP, page, limit, force, incremental) ==
    LET pageNum == page
        pageSize == PageSizeOf(limit)
        key == cacheKey(pageNum, pageSize)
        answer(status, body) ==
            Reply("request", pageNum, pageSize, force, status, body)
    IN
    /\ rateLimitStore' = RateStoreAfter(clientIP)
    /\ IF isRateLimited(clientIP)
       THEN /\ last' = answer(429, EmptyBody)
            /\ UNCHANGED <<now, dataCache, syncState, inflight, served, admits>>
       ELSE
       /\ admits' = RecordAdmit(clientIP)
       /\ IF CacheAnswers(force, key)
          THEN /\ last' = answer(200, CachedBody(CacheEntry(dataCache, key).data))
               /\ UNCHANGED <<now, dataCache, syncState, inflight, served>>
          ELSE
          LET cache1 == IF force THEN dataCache ELSE CacheAfterGet(dataCache, key)
          IN
          /\ dataCache' = cache1
          /\ served' = served
          /\ IF SkipIncremental(incremental)
             THEN /\ last' = answer(304, EmptyBody)
                  /\ UNCHANGED <<now, syncState, inflight>>
             ELSE IF SyncBusy
             THEN /\ last' = answer(409, EmptyBody)
                  /\ UNCHANGED <<now, syncState, inflight>>
             ELSE /\ Len(inflight) < MaxInflight
                  /\ syncState' = [syncState EXCEPT !.isSyncing = TRUE]
                  /\ inflight' = Append(inflight,
                        NewFetch(pageNum, pageSize))
                  /\ last' = answer(0, EmptyBody)
                  /\ UNCHANGED now

Request ==
    \E clientIP \in ClientIPs, page \in PageNums, limit \in Limits,
       force \in BOOLEAN, incremental \in BOOLEAN :
        HandleRequest(clientIP, page, limit, force, incremental)

----------------------------------------------------------------------------
(* fetchAllBookmarks and the rest of the handler *)

RemoveAt(s, i) == SubSeq(s, 1, i - 1) \o SubSeq(s, i + 1, Len(s))

\* the reason phrases an upstream response carries (none over HTTP/2)
ReasonPhrases ==
    {<<>>,
     <<"B", "a", "d", " ", "R", "e", "q", "u", "e", "s", "t">>,
     <<"C", "o", "n", "f", "l", "i", "c", "t">>}

\* what one page request can come back with
OkPages ==
    [kind : {"ok"}, results : {<<r>> : r \in Recs}, has_more : {TRUE},
     next_cursor : Cursors, status : {200}, statusText : {<<>>}]
    \cup [kind : {"ok"}, results : {<<r>> : r \in Recs}, has_more : {FALSE},
          next_cursor : {Null}, status : {200}, statusText : {<<>>}]

FailedPages ==
    [kind : {"http"}, results : {NoData}, has_more : {FALSE},
     next_cursor : {Null}, status : {401, 500}, statusText : {<<>>}]
    \cup [kind : {"abort", "network"}, results : {NoData}, has_more : {FALSE},
          next_cursor : {Null}, status : {0}, statusText : {<<>>}]

\* every way a page request can fail: the statuses for which response.ok is
\* false, with their reason phrases; the abort; the connection failure
NonOkStatuses == 300..599
UpstreamFailures ==
    [kind : {"http"}, results : {NoData}, has_more : {FALSE},
     next_cursor : {Null}, status : NonOkStatuses, statusText : ReasonPhrases]
    \cup [kind : {"abort", "network"}, results : {NoData}, has_more : {FALSE},
          next_cursor : {Null}, status : {0}, statusText : {<<>>}]

NoUpstream ==
    [kind |-> "none", results |-> NoData, has_more |-> FALSE,
     next_cursor |-> Null, status |-> 0, statusText |-> <<>>]

PageOutcomes == OkPages \cup FailedPages

\* Strings are sequences of pieces (single characters where a search looks
\* inside them).
Includes(text, piece) ==
    \E i \in 0..(Len(text) - Len(piece)) :
        SubSeq(text, i + 1, i + Len(piece)) = piece

DigitChars == <<"0", "1", "2", "3", "4", "5", "6", "7", "8", "9">>

\* a three-digit status in decimal
StatusDigits(status) ==
    <<DigitChars[(status \div 100) + 1], DigitChars[((status \div 10) % 10) + 1],
      DigitChars[(status % 10) + 1]>>

\* pieces of the messages of lines 679-689: text in Latin letters character
\* by character, each Chinese phrase as one piece written in ASCII
Notion_ == <<"N", "o", "t", "i", "o", "n", " ">>
NotionAPI_ == Notion_ \o <<"A", "P", "I", " ">>
Fetch == <<"f", "e", "t", "c", "h">>
KeyPhrase == NotionAPI_ \o <<"[key]">>
PermissionPhrase == <<"[permission]">>
NoDatabasePhrase == <<"[database]", "[does not exist]">>
RatePhrase == <<"[rate exceeded]">>
UnavailablePhrase == <<"[server temporarily unavailable]">>
RetryLater == <<",", "[retry later]">>

\* what fetchAllBookmarks throws (lines 673-691, 716-719): the rejection of
\* fetch() as it is, or an Error by the status of the response
thrownError(outcome) ==
    IF outcome.kind = "abort"
    THEN [name |-> "AbortError",
          message |-> <<"T", "h", "i", "s", " ", "o", "p", "e", "r", "a", "t",
                        "i", "o", "n", " ", "w", "a", "s", " ", "a", "b", "o",
                        "r", "t", "e", "d">>]
    ELSE IF outcome.kind = "network"
    THEN [name |-> "TypeError",
          message |-> Fetch \o <<" ", "f", "a", "i", "l", "e", "d">>]
    ELSE [name |-> "Error",
          message |->
              IF outcome.status = 401
              THEN KeyPhrase \o <<"[invalid or expired]">>
              ELSE IF outcome.status = 403
              THEN <<"[no access to]", " "
                     >> \o Notion_ \o <<"[database]", "[of]">> \o PermissionPhrase
              ELSE IF outcome.status = 404
              THEN Notion_ \o NoDatabasePhrase \o <<"[or]", "I", "D", "[wrong]">>
              ELSE IF outcome.status = 429
              THEN NotionAPI_ \o <<"[request]">> \o RatePhrase \o RetryLater
              ELSE IF outcome.status >= 500
              THEN Notion_ \o UnavailablePhrase \o RetryLater
              ELSE NotionAPI_ \o <<"[error]", ":", " ">>
                   \o StatusDigits(outcome.status) \o <<" ">>
                   \o outcome.statusText]

\* mutant: the catch does not look for the permission message
catchStatus_nopermission(error) ==
    IF error.name = "AbortError" THEN 408
    ELSE IF Includes(error.message, Fetch) THEN 503
    ELSE IF Includes(error.message, KeyPhrase) THEN 401
    ELSE IF Includes(error.message, NoDatabasePhrase) THEN 404
    ELSE IF Includes(error.message, RatePhrase) THEN 429
    ELSE IF Includes(error.message, UnavailablePhrase) THEN 503
    ELSE 500

\* the status the outer catch answers with (lines 567-629)
catchStatus(error) ==
    IF error.name = "AbortError" THEN 408
    ELSE IF Includes(error.message, Fetch) THEN 503
    ELSE IF Includes(error.message, KeyPhrase) THEN 401
    ELSE IF Includes(error.message, PermissionPhrase) THEN 403
    ELSE IF Includes(error.message, NoDatabasePhrase) THEN 404
    ELSE IF Includes(error.message, RatePhrase) THEN 429
    ELSE IF Includes(error.message, UnavailablePhrase) THEN 503
    ELSE 500

\* the status answered when fetchAllBookmarks ends with this failure
ErrorStatus(outcome) == catchStatus(thrownError(outcome))

\* the history per cache key, after setCache(key, ...) stored a fresh page:
\* the oldest key leaves when the cache was full
ServedAfterSet(key, data) ==
    LET victim == IF Len(dataCache) >= maxSize
                  THEN {dataCache[1].key} ELSE {}
        keep == (DOMAIN served \ victim) \cup {key}
    IN  [k \in keep |->
            IF k = key THEN [data |-> data, time |-> now] ELSE served[k]]

\* lines 526-560: fetchAllBookmarks returned allBookmarks to the handler
FinishOk(i, bookmarks) ==
    LET f == inflight[i]
        p == PageOf(bookmarks, f.pageNum, f.pageSize)
    IN  /\ syncState' = [lastSyncTime |-> now, totalPages |-> p.totalPages,
                         isSyncing |-> FALSE]
        /\ dataCache' = setCache(dataCache, cacheKey(f.pageNum, f.pageSize), p)
        /\ served' = ServedAfterSet(cacheKey(f.pageNum, f.pageSize), p.bookmarks)
        /\ last' = Reply("complete", f.pageNum, f.pageSize, FALSE, 200,
                         FreshBody(p))
        /\ inflight' = RemoveAt(inflight, i)

\* mutant: the catch block forgets the flag
ReleaseOnError_forgot == syncState

\* mutant: the catch block stamps the sync time as the success path does
ReleaseOnError_stamps ==
    [syncState EXCEPT !.isSyncing = FALSE, !.lastSyncTime = now]

\* syncState after the inner catch (lines 562-565)
ReleaseOnError == [syncState EXCEPT !.isSyncing = FALSE]

\* mutant: the pages fetched before the failure are cached
FinishError_cachespartial(i, outcome) ==
    LET f == inflight[i]
        p == PageOf(f.allBookmarks, f.pageNum, f.pageSize)
    IN  /\ syncState' = ReleaseOnError
        /\ last' = Reply("complete", f.pageNum, f.pageSize, FALSE,
                         ErrorStatus(outcome), EmptyBody)
        /\ inflight' = RemoveAt(inflight, i)
        /\ dataCache' = setCache(dataCache, cacheKey(f.pageNum, f.pageSize), p)
        /\ served' = ServedAfterSet(cacheKey(f.pageNum, f.pageSize), p.bookmarks)

\* fetchAllBookmarks threw: inner catch, then the outer catch answers
FinishError(i, outcome) ==
    LET f == inflight[i]
    IN  /\ syncState' = ReleaseOnError
        /\ last' = Reply("complete", f.pageNum, f.pageSize, FALSE,
                         ErrorStatus(outcome), EmptyBody)
        /\ inflight' = RemoveAt(inflight, i)
        /\ UNCHANGED <<dataCache, served>>

\* the awaited page request of invocation i settles (lines 660-725)
PageResponse(i, outcome) ==
    LET f == inflight[i]
        all == f.allBookmarks \o outcome.results
    IN  /\ f.awaiting = "response"
        /\ IF outcome.kind # "ok"
           THEN FinishError(i, outcome)
           ELSE IF outcome.has_more
           THEN /\ inflight' = [inflight EXCEPT ![i] =
                       [f EXCEPT !.allBookmarks = all, !.hasMore = TRUE,
                                 !.startCursor = outcome.next_cursor,
                                 !.lastNext = outcome.next_cursor,
                                 !.sent = Absent,
                                 !.awaiting = "delay"]]
                /\ last' = NoReply
                /\ UNCHANGED <<syncState, dataCache, served>>
           ELSE FinishOk(i, all)
        /\ UNCHANGED <<now, rateLimitStore, admits>>

\* mutant: the loop has no ceiling
LoopContinues_noceiling(f) == f.hasMore

\* while (hasMore && pageCount < maxPages), line 640
LoopContinues(f) == f.hasMore /\ f.pageCount < maxPages

\* if (startCursor) requestBody.start_cursor = startCursor (lines 655-657)
RequestCursor(startCursor) ==
    IF startCursor # Null THEN startCursor ELSE Absent

\* the 100 ms pause ends and the loop condition is evaluated again; the next
\* page request goes out (lines 640-670)
AfterDelay(i) ==
    LET f == inflight[i]
    IN  /\ f.awaiting = "delay"
        /\ IF LoopContinues(f)
           THEN /\ inflight' = [inflight EXCEPT ![i] =
                       [f EXCEPT !.pageCount = f.pageCount + 1,
                                 !.sent = RequestCursor(f.startCursor),
                                 !.awaiting = "response"]]
                /\ last' = NoReply
                /\ UNCHANGED <<syncState, dataCache, served>>
           ELSE FinishOk(i, f.allBookmarks)
        /\ UNCHANGED <<now, rateLimitStore, admits>>

FetchStep ==
    \E i \in 1..Len(inflight) :
        \/ \E outcome \in PageOutcomes : PageResponse(i, outcome)
        \/ AfterDelay(i)

----------------------------------------------------------------------------
(* Timers, POST /api/cache/clear, the clock *)

RateSweep ==
    /\ rateLimitStore' = RateSweepResult
    /\ last' = NoReply
    /\ UNCHANGED <<now, dataCache, syncState, inflight, served, admits>>

CacheSweep ==
    /\ dataCache' = CacheSweepResult(dataCache)
    /\ last' = NoReply
    /\ UNCHANGED <<now, rateLimitStore, syncState, inflight, served, admits>>

ClearCache ==
    /\ dataCache' = <<>>
    /\ served' = <<>>
    /\ last' = NoReply
    /\ UNCHANGED <<now, rateLimitStore, syncState, inflight, admits>>

\* The cache functions called with any key (lines 392-412): the handler builds
\* the key from the page and limit of the query, so the keys are more than the
\* cache holds.
CachePages == 1 .. maxSize + 1

\* getFromCache(key)
GetCached ==
    \E pageNum \in CachePages :
        /\ dataCache' = CacheAfterGet(dataCache, cacheKey(pageNum, 1))
        /\ UNCHANGED <<now, rateLimitStore, syncState, inflight, last, served, admits>>

\* setCache(key, data) with the page of an empty list
StoreCached ==
    \E pageNum \in CachePages :
        LET key == cacheKey(pageNum, 1)
            p == PageOf(<<>>, pageNum, 1)
        IN  /\ dataCache' = setCache(dataCache, key, p)
            /\ served' = ServedAfterSet(key, p.bookmarks)
            /\ UNCHANGED <<now, rateLimitStore, syncState, inflight, last, admits>>

\* time passes; the histories forget what has left the window and the TTL
Tick ==
    /\ now < MaxTime
    /\ now' = now + 1
    /\ admits' =
          LET kept(ip) == SelectSeq(admits[ip], LAMBDA t : now + 1 - t < windowMs)
              live == {ip \in DOMAIN admits : Len(kept(ip)) > 0}
          IN  [ip \in live |-> kept(ip)]
    /\ served' =
          LET live == {k \in DOMAIN served : now + 1 - served[k].time < duration}
          IN  [k \in live |-> served[k]]
    /\ last' = NoReply
    /\ UNCHANGED <<rateLimitStore, dataCache, syncState, inflight>>

----------------------------------------------------------------------------

ServerInit ==
    /\ now = 1
    /\ rateLimitStore = <<>>
    /\ dataCache = <<>>
    /\ syncState = [lastSyncTime |-> NoSync, totalPages |-> 0, isSyncing |-> FALSE]
    /\ inflight = <<>>
    /\ last = NoReply
    /\ served = <<>>
    /\ admits = <<>>

----------------------------------------------------------------------------
(* ApiService.fetchWithRetry / classifyError (public/js/api.js) *)

maxRetries == 3            \* config.retry.maxRetries
retryDelay == 1000         \* config.retry.retryDelay, ms
backoffMultiplier == 2     \* config.retry.backoffMultiplier

HTTP_ == <<"H", "T", "T", "P", " ">>
FailedToFetch ==
    <<"F", "a", "i", "l", "e", "d", " ", "t", "o", " ", "f", "e", "t", "c", "h">>
NetworkErrorWord ==
    <<"N", "e", "t", "w", "o", "r", "k", "E", "r", "r", "o", "r">>
\* the piece of the offline message (line 66) that line 134 searches for,
\* written in ASCII
OfflineWords == <<"network-disconnected">>

\* new Error(`HTTP ${response.status}: ${response.statusText}`)
HttpError(status, statusText) ==
    [name |-> "Error",
     message |-> HTTP_ \o StatusDigits(status) \o <<":", " ">> \o statusText]

\* the Error thrown at line 66
OfflineError ==
    [name |-> "Error", message |-> OfflineWords \o <<", check-settings">>]

\* what fetch() rejects with: the abort of the 30 s timer, and the
\* connectivity failures of the browsers
AbortError ==
    [name |-> "AbortError", message |-> <<"The user aborted a request.">>]
Rejections ==
    {AbortError,
     [name |-> "TypeError", message |-> FailedToFetch],
     [name |-> "TypeError",
      message |-> NetworkErrorWord \o <<" when attempting to fetch resource.">>],
     [name |-> "TypeError", message |-> <<"L", "o", "a", "d", " ", "f", "a", "i", "l", "e", "d">>]}

Statuses == {200, 304, 404, 408, 409, 429, 500, 503}
StatusTexts ==
    {<<>>, <<"N", "o", "t", " ", "F", "o", "u", "n", "d">>, <<"E", "r", "r", "o", "r">>}

\* response.ok
ResponseOk(status) == status >= 200 /\ status <= 299

\* mutant: request-timeout and rate-limit answers are retried
classifyError_retry4xx(error) ==
    IF error.name = "AbortError"
    THEN [type |-> "timeout", message |-> "request timed out", retryable |-> TRUE]
    ELSE IF Includes(error.message, HTTP_ \o <<"5">>)
            \/ Includes(error.message, HTTP_ \o <<"4", "0", "8">>)
            \/ Includes(error.message, HTTP_ \o <<"4", "2", "9">>)
    THEN [type |-> "server", message |-> "server error", retryable |-> TRUE]
    ELSE IF Includes(error.message, HTTP_ \o <<"4">>)
    THEN [type |-> "client", message |-> "request error", retryable |-> FALSE]
    ELSE [type |-> "unknown", message |-> "unknown error", retryable |-> FALSE]

\* classifyError (lines 106-142), its messages in English; an unclassified
\* error keeps its own message, abbreviated here to "(error.message)"
classifyError(error) ==
    IF error.name = "AbortError"
    THEN [type |-> "timeout", message |-> "request timed out", retryable |-> TRUE]
    ELSE IF Includes(error.message, FailedToFetch)
            \/ Includes(error.message, NetworkErrorWord)
    THEN [type |-> "network", message |-> "network connection failed", retryable |-> TRUE]
    ELSE IF Includes(error.message, HTTP_ \o <<"5">>)
    THEN [type |-> "server", message |-> "server error", retryable |-> TRUE]
    ELSE IF Includes(error.message, HTTP_ \o <<"4">>)
    THEN [type |-> "client", message |-> "request error", retryable |-> FALSE]
    ELSE IF Includes(error.message, OfflineWords)
    THEN [type |-> "offline", message |-> "network disconnected", retryable |-> FALSE]
    ELSE [type |-> "unknown", message |-> "(error.message)", retryable |-> FALSE]

RECURSIVE Pow(_, _)
Pow(b, e) == IF e = 0 THEN 1 ELSE b * Pow(b, e - 1)

\* mutant: the delay grows linearly
BackoffDelay_linear(count) == retryDelay * backoffMultiplier * count

\* retryDelay * Math.pow(backoffMultiplier, retryCount)
BackoffDelay(count) == retryDelay * Pow(backoffMultiplier, count)

\* mutant: the retries are not counted
ShouldRetry_uncounted(errorInfo, count) == errorInfo.retryable

\* errorInfo.retryable && retryCount < this.config.retry.maxRetries
ShouldRetry(errorInfo, count) == errorInfo.retryable /\ count < maxRetries

Returned(status) ==
    [ok |-> TRUE, status |-> status, type |-> "none", message |-> "",
     retryable |-> FALSE]

Thrown(errorInfo) ==
    [ok |-> FALSE, status |-> 0, type |-> errorInfo.type,
     message |-> errorInfo.message, retryable |-> errorInfo.retryable]

NoResult ==
    [ok |-> FALSE, status |-> 0, type |-> "pending", message |-> "",
     retryable |-> FALSE]

\* the catch block (lines 86-102) of the invocation with retryCount = count;
\* `how` is the history's name for the way its try block ended
Caught(error, how, count) ==
    LET errorInfo == classifyError(error)
    IN  /\ events' = Append(events, how)
        /\ IF ShouldRetry(errorInfo, count)
           THEN /\ delays' = Append(delays, BackoffDelay(count))
                /\ rpc' = "waiting"
                /\ UNCHANGED result
           ELSE /\ rpc' = "done"
                /\ result' = Thrown(errorInfo)
                /\ UNCHANGED delays

\* the invocation with retryCount = count runs its try block up to
\* `await fetch` (lines 63-76)
Attempt(count) ==
    /\ retryCount' = count
    /\ IF ~isOnline
       THEN /\ Caught(OfflineError, "offline", count)
            /\ UNCHANGED attempts
       ELSE /\ attempts' = attempts + 1
            /\ rpc' = "fetching"
            /\ UNCHANGED <<delays, events, result>>
    /\ UNCHANGED isOnline

\* a caller awaits fetchWithRetry(url); a finished call's record is dropped
\* before the next one starts
Reset ==
    /\ rpc = "done"
    /\ rpc' = "idle"
    /\ retryCount' = 0
    /\ attempts' = 0
    /\ delays' = <<>>
    /\ events' = <<>>
    /\ result' = NoResult
    /\ UNCHANGED isOnline

Call ==
    /\ rpc = "idle"
    /\ Attempt(0)

\* the history's name for an answer
HowAnswered(status) ==
    IF ResponseOk(status) THEN "ok"
    ELSE IF status >= 500 THEN "http5xx"
    ELSE IF status >= 400 THEN "http4xx"
    ELSE "http3xx"

\* the history's name for a rejection
HowRejected(error) ==
    IF error = AbortError THEN "timeout"
    ELSE IF error.message[1] = "L" THEN "loadfailed"
    ELSE "network"

\* the awaited fetch settles (lines 73-84), and on failure the catch block runs
Settle ==
    /\ rpc = "fetching"
    /\ \/ \E status \in Statuses, statusText \in StatusTexts :
             IF ResponseOk(status)
             THEN /\ rpc' = "done"
                  /\ result' = Returned(status)
                  /\ events' = Append(events, "ok")
                  /\ UNCHANGED delays
             ELSE Caught(HttpError(status, statusText), HowAnswered(status),
                         retryCount)
       \/ \E error \in Rejections : Caught(error, HowRejected(error), retryCount)
    /\ UNCHANGED <<isOnline, attempts, retryCount>>

\* the backoff wait ends: return this.fetchWithRetry(url, options, retryCount + 1)
DelayElapsed ==
    /\ rpc = "waiting"
    /\ Attempt(retryCount + 1)

\* window 'online' / 'offline' events
GoOnline ==
    /\ ~isOnline
    /\ isOnline' = TRUE
    /\ UNCHANGED <<rpc, retryCount, attempts, delays, events, result>>

GoOffline ==
    /\ isOnline
    /\ isOnline' = FALSE
    /\ UNCHANGED <<rpc, retryCount, attempts, delays, events, result>>

ErrorInit == upstream = NoUpstream

RetryInit ==
    /\ isOnline = TRUE
    /\ rpc = "idle"
    /\ retryCount = 0
    /\ attempts = 0
    /\ delays = <<>>
    /\ events = <<>>
    /\ result = NoResult

----------------------------------------------------------------------------
(* DataManager (public/script.js) *)

\* Text is a sequence of characters, so that includes, toLowerCase, trim, join
\* and the template of the cache key do to it what they do to a string.
LowerChars ==
    <<"a", "b", "c", "d", "e", "f", "g", "h", "i", "j", "k", "l", "m",
      "n", "o", "p", "q", "r", "s", "t", "u", "v", "w", "x", "y", "z">>
UpperChars ==
    <<"A", "B", "C", "D", "E", "F", "G", "H", "I", "J", "K", "L", "M",
      "N", "O", "P", "Q", "R", "S", "T", "U", "V", "W", "X", "Y", "Z">>

IsUpper(c) == \E i \in DOMAIN UpperChars : UpperChars[i] = c

\* String.prototype.toLowerCase
toLowerCase(text) ==
    [i \in DOMAIN text |->
        IF IsUpper(text[i])
        THEN LowerChars[CHOOSE k \in DOMAIN UpperChars : UpperChars[k] = text[i]]
        ELSE text[i]]

\* String.prototype.trim
RECURSIVE trim(_)
trim(text) ==
    IF text = <<>> THEN <<>>
    ELSE IF Head(text) = " " THEN trim(Tail(text))
    ELSE IF text[Len(text)] = " " THEN trim(SubSeq(text, 1, Len(text) - 1))
    ELSE text

\* Array.prototype.join(',')
RECURSIVE join(_)
join(tags) ==
    IF tags = <<>> THEN <<>>
    ELSE IF Len(tags) = 1 THEN tags[1]
    ELSE tags[1] \o <<",">> \o join(Tail(tags))

\* Array.prototype.includes
Contains(list, x) == \E i \in DOMAIN list : list[i] = x

\* the order of a.localeCompare(b, 'zh-CN') on lower-case ASCII names
Rank(c) ==
    IF \E k \in DOMAIN LowerChars : LowerChars[k] = c
    THEN CHOOSE k \in DOMAIN LowerChars : LowerChars[k] = c
    ELSE 0
RECURSIVE localeBefore(_, _)
localeBefore(a, b) ==
    IF b = <<>> THEN FALSE
    ELSE IF a = <<>> THEN TRUE
    ELSE IF Rank(Head(a)) # Rank(Head(b)) THEN Rank(Head(a)) < Rank(Head(b))
    ELSE localeBefore(Tail(a), Tail(b))

cacheTimeout == 1          \* 5 * 60 * 1000 ms, in ticks of the client's clock
MaxClock == 2              \* the client's clock runs 0 .. MaxClock
MaxViews == 2              \* views held by the cache at a time

All == <<"a", "l", "l">>                 \* 'all'
Uncategorized == <<"#">>                 \* the label of the group of bookmarks without category
Dev == <<"d", "e", "v">>
Art == <<"a", "r", "t">>
TagA == <<"a">>
TagB == <<"_", "b">>

Bookmark(id, title, category, tags) ==
    [id |-> id, title |-> title, description |-> <<>>, url |-> <<"u", "/">>,
     category |-> category, tags |-> tags]

\* bookmarks tagged {A}, {A,B}, {B}, and one without tags or category
BmA == Bookmark(1, <<"G", "o">>, Dev, <<TagA>>)
BmAB == Bookmark(2, <<"C">>, Dev, <<TagA, TagB>>)
BmB == Bookmark(3, <<"I", "n", "k">>, Art, <<TagB>>)
BmNone == Bookmark(4, <<"Z", "i", "g">>, <<>>, <<>>)

\* what a load hands to setBookmarks; [] is what a failed load sets (app.js:284)
BookmarkLists == {<<>>, <<BmA, BmAB, BmB, BmNone>>}
CategoryChoices == {All, Dev}
TagChoices == {TagA, TagB}
QueryInputs == {<<>>, <<"G", "o", " ">>, <<"b", "_">>}

\* `${this.currentCategory}_${this.currentTags.join(',')}_${this.searchQuery}`
viewKey(category, tags, query) ==
    category \o <<"_">> \o join(tags) \o <<"_">> \o query

\* searchInBookmark (lines 1013-1032)
searchInBookmark(bookmark, query) ==
    LET searchFields ==
            <<bookmark.title, bookmark.description, bookmark.url, bookmark.category>>
        inFields ==
            \E i \in DOMAIN searchFields :
                /\ searchFields[i] # <<>>
                /\ Includes(toLowerCase(searchFields[i]), query)
        inTags ==
            \E i \in DOMAIN bookmark.tags :
                Includes(toLowerCase(bookmark.tags[i]), query)
    IN  inFields \/ inTags

categoryMatch(bookmark, category) ==
    category = All \/ bookmark.category = category

\* mutant: a bookmark must carry every active tag
tagMatch_every(bookmark, tags) ==
    \/ Len(tags) = 0
    \/ /\ Len(bookmark.tags) > 0
       /\ \A i \in DOMAIN tags : Contains(bookmark.tags, tags[i])

\* lines 949-951
tagMatch(bookmark, tags) ==
    \/ Len(tags) = 0
    \/ /\ Len(bookmark.tags) > 0
       /\ \E i \in DOMAIN tags : Contains(bookmark.tags, tags[i])

searchMatch(bookmark, query) ==
    query = <<>> \/ searchInBookmark(bookmark, query)

\* bookmark.category || 'uncategorized'
GroupOf(bookmark) ==
    IF bookmark.category = <<>> THEN Uncategorized ELSE bookmark.category

\* the comparator of lines 1000-1004: the uncategorized group goes last
sortBefore(a, b) ==
    IF a = Uncategorized THEN FALSE
    ELSE IF b = Uncategorized THEN TRUE
    ELSE localeBefore(a, b)

RECURSIVE sortedCategories(_)
sortedCategories(names) ==
    IF names = {} THEN <<>>
    ELSE LET first == CHOOSE a \in names : \A b \in names \ {a} : sortBefore(a, b)
         IN  <<first>> \o sortedCategories(names \ {first})

\* groupBookmarksByCategory (lines 985-1010)
groupBookmarksByCategory(bookmarks) ==
    LET names == {Uncategorized} \cup {GroupOf(bookmarks[i]) : i \in DOMAIN bookmarks}
        sorted == sortedCategories(names)
    IN  [i \in DOMAIN sorted |->
            [category |-> sorted[i],
             bookmarks |-> SelectSeq(bookmarks, LAMBDA b : GroupOf(b) = sorted[i])]]

\* the filter and the grouping of filterBookmarks (lines 942-968)
computeView(bookmarks, category, tags, query) ==
    LET filtered ==
            SelectSeq(bookmarks,
                      LAMBDA b : /\ categoryMatch(b, category)
                                 /\ tagMatch(b, tags)
                                 /\ searchMatch(b, query))
    IN  IF category = All
        THEN groupBookmarksByCategory(filtered)
        ELSE <<[category |-> category, bookmarks |-> filtered]>>

\* lines 934-940: the key is cached and its entry is younger than cacheTimeout
viewCached(views, key, t) ==
    /\ key \in DOMAIN views
    /\ t - views[key].timestamp < cacheTimeout

\* cleanExpiredCache (lines 1076-1083)
cleanExpiredCache(views, t) ==
    LET kept == {k \in DOMAIN views : ~(t - views[k].timestamp > cacheTimeout)}
    IN  [k \in kept |-> views[k]]

\* this.cache.set(cacheKey, {data, timestamp})
putView(views, key, data, t) ==
    [k \in DOMAIN views \cup {key} |->
        IF k = key THEN [data |-> data, timestamp |-> t] ELSE views[k]]

\* filterBookmarks (lines 929-982): the view it leaves in filteredBookmarks,
\* the cache it leaves, and whether the view came from the cache
filterBookmarks(bookmarks, category, tags, query, views, t) ==
    LET key == viewKey(category, tags, query)
    IN  IF viewCached(views, key, t)
        THEN [view |-> views[key].data, views |-> views, fromCache |-> TRUE]
        ELSE LET view == computeView(bookmarks, category, tags, query)
             IN  [view |-> view,
                  views |-> cleanExpiredCache(putView(views, key, view, t), t),
                  fromCache |-> FALSE]

\* the tail of every operation: this.filterBookmarks()
Refilter(bookmarks, category, tags, query, views) ==
    \E r \in {filterBookmarks(bookmarks, category, tags, query, views, clock)} :
        /\ Cardinality(DOMAIN r.views) <= MaxViews
        /\ filteredBookmarks' = r.view
        /\ viewCache' = r.views
        /\ viewFromCache' = r.fromCache

\* mutant: a list already loaded is kept
setBookmarks_keepsLoaded(bookmarks) ==
    LET kept == IF allBookmarks = <<>> THEN bookmarks ELSE allBookmarks
    IN  /\ allBookmarks' = kept
        /\ Refilter(kept, currentCategory, currentTags, searchQuery, viewCache)
        /\ UNCHANGED <<currentCategory, currentTags, searchQuery, clock>>

\* lines 846-849
setBookmarks(bookmarks) ==
    /\ allBookmarks' = bookmarks
    /\ Refilter(bookmarks, currentCategory, currentTags, searchQuery, viewCache)
    /\ UNCHANGED <<currentCategory, currentTags, searchQuery, clock>>

\* mutant: the cache is not cleared
setCategory_keepcache(category) ==
    /\ currentCategory' = category
    /\ Refilter(allBookmarks, category, currentTags, searchQuery, viewCache)
    /\ UNCHANGED <<allBookmarks, currentTags, searchQuery, clock>>

\* lines 862-870: clearCache(), then filterBookmarks()
setCategory(category) ==
    /\ currentCategory' = category
    /\ Refilter(allBookmarks, category, currentTags, searchQuery, <<>>)
    /\ UNCHANGED <<allBookmarks, currentTags, searchQuery, clock>>

\* lines 884-889
addTag(tag) ==
    /\ ~Contains(currentTags, tag)
    /\ currentTags' = Append(currentTags, tag)
    /\ Refilter(allBookmarks, currentCategory, currentTags', searchQuery, viewCache)
    /\ UNCHANGED <<allBookmarks, currentCategory, searchQuery, clock>>

\* lines 892-895
removeTag(tag) ==
    /\ currentTags' = SelectSeq(currentTags, LAMBDA t : t # tag)
    /\ Refilter(allBookmarks, currentCategory, currentTags', searchQuery, viewCache)
    /\ UNCHANGED <<allBookmarks, currentCategory, searchQuery, clock>>

\* lines 898-904
toggleTag(tag) ==
    IF Contains(currentTags, tag) THEN removeTag(tag) ELSE addTag(tag)

\* lines 907-910
clearTags ==
    /\ currentTags' = <<>>
    /\ Refilter(allBookmarks, currentCategory, <<>>, searchQuery, viewCache)
    /\ UNCHANGED <<allBookmarks, currentCategory, searchQuery, clock>>

\* lines 918-921
setSearchQuery(query) ==
    /\ searchQuery' = trim(toLowerCase(query))
    /\ Refilter(allBookmarks, currentCategory, currentTags, searchQuery', viewCache)
    /\ UNCHANGED <<allBookmarks, currentCategory, currentTags, clock>>

\* Date.now() advances
ClockTick ==
    /\ clock < MaxClock
    /\ clock' = clock + 1
    /\ UNCHANGED <<allBookmarks, filteredBookmarks, currentCategory, currentTags,
                   searchQuery, viewCache, viewFromCache>>

LoadBookmarks == \E bookmarks \in BookmarkLists : setBookmarks(bookmarks)
SelectCategory == \E category \in CategoryChoices : setCategory(category)
ClickTag == \E tag \in TagChoices : toggleTag(tag)
SearchInput == \E query \in QueryInputs : setSearchQuery(query)

\* the constructor (lines 833-843)
DataManagerInit ==
    /\ allBookmarks = <<>>
    /\ filteredBookmarks = <<>>
    /\ currentCategory = All
    /\ currentTags = <<>>
    /\ searchQuery = <<>>
    /\ viewCache = <<>>
    /\ viewFromCache = FALSE
    /\ clock = 0

----------------------------------------------------------------------------
(* ApiService's response cache (public/js/api.js, lines 155-204) *)

clientDuration == 1        \* config.cache.duration: 5 * 60 * 1000 ms, in ticks
clientMaxSize == 2         \* config.cache.maxSize (100 in the source)
MaxSets == 3               \* setCache calls the model follows

Urls == {"u1", "u2", "u3", "u4"}
Payloads == {"p1", "p2"}
NoKey == <<>>

\* `api_${url}` (line 158)
getCacheKey(url) == <<"api_", url>>

ApiKeys == {getCacheKey(url) : url \in Urls}

\* this.cache is a sequence of (key, data, timestamp) in Map order, the
\* timestamp being the Date.now() of the set that stored the data;
\* this.cacheTimestamps is a sequence of (key, timestamp) in Map order.  A key
\* set for the first time goes to the end, a key set again keeps its place.
apiKeysOf(c) == {c[i].key : i \in DOMAIN c}
apiEntry(c, key) == c[CHOOSE i \in DOMAIN c : c[i].key = key]
apiDelete(c, key) == SelectSeq(c, LAMBDA e : e.key # key)
apiMapSet(c, key, data, t) ==
    IF key \in apiKeysOf(c)
    THEN [i \in DOMAIN c |->
            IF c[i].key = key
            THEN [key |-> key, data |-> data, timestamp |-> t] ELSE c[i]]
    ELSE Append(c, [key |-> key, data |-> data, timestamp |-> t])

\* Date.now() - timestamp > duration (lines 165, 194); the timestamp of a
\* stored key is a Date.now(), never 0, so "!timestamp" is the missing key
apiExpired(e, t) == t - e.timestamp > clientDuration

\* getFromCache (lines 161-172): what it returns and what it leaves
apiHit(c, key, t) == key \in apiKeysOf(c) /\ ~apiExpired(apiEntry(c, key), t)
apiAfterGet(c, key, t) == IF apiHit(c, key, t) THEN c ELSE apiDelete(c, key)

\* cleanupCache (lines 191-199)
cleanupCache(c, t) == SelectSeq(c, LAMBDA e : ~apiExpired(e, t))

\* mutant: the key set last
oldestKey_newest(c) == c[Len(c)].key

\* this.cache.keys().next().value (line 182)
oldestKey(c) == c[1].key

\* the key setCache deletes for room (lines 181-185), after the cleanup
apiVictim(c) == IF Len(c) >= clientMaxSize THEN oldestKey(c) ELSE NoKey

\* setCache (lines 174-189)
apiSetCache(c, key, data, t) ==
    LET swept == cleanupCache(c, t)
        roomy == IF Len(swept) >= clientMaxSize
                 THEN apiDelete(swept, apiVictim(swept)) ELSE swept
    IN  apiMapSet(roomy, key, data, t)

\* this.cacheTimestamps.set(key, Date.now()) (line 188)
stampSet(ts, key, t) ==
    IF key \in apiKeysOf(ts)
    THEN [i \in DOMAIN ts |->
            IF ts[i].key = key THEN [key |-> key, timestamp |-> t] ELSE ts[i]]
    ELSE Append(ts, [key |-> key, timestamp |-> t])

\* what getFromCache leaves of this.cacheTimestamps (lines 164-168)
stampsAfterGet(ts, key, t) ==
    IF key \in apiKeysOf(ts) /\ ~apiExpired(apiEntry(ts, key), t)
    THEN ts ELSE apiDelete(ts, key)

\* what setCache leaves of this.cacheTimestamps (lines 178-188): the cleanup
\* walks the timestamps, the key deleted for room is the first key of
\* this.cache when this.cache is full
stampsAfterSet(ts, c, key, t) ==
    LET swept == cleanupCache(ts, t)
        sweptCache == SelectSeq(c, LAMBDA e : e.key \in apiKeysOf(swept))
        roomy == IF Len(sweptCache) >= clientMaxSize
                 THEN apiDelete(swept, oldestKey(sweptCache)) ELSE swept
    IN  stampSet(roomy, key, t)

\* a call of setCache(key, data), with the histories
setCacheCall(key, data) ==
    LET swept == cleanupCache(apiCache, clock)
        victim == apiVictim(swept)
        after == apiSetCache(apiCache, key, data, clock)
    IN  /\ sets < MaxSets
        /\ apiCache' = after
        /\ cacheTimestamps' = stampsAfterSet(cacheTimestamps, apiCache, key, clock)
        /\ sets' = sets + 1
        /\ evicted' = victim
        /\ entered' =
              [k \in ApiKeys |->
                  IF k \notin apiKeysOf(after) THEN 0
                  ELSE IF k = key /\ (k \notin apiKeysOf(swept) \/ k = victim)
                  THEN sets + 1
                  ELSE entered[k]]
        /\ UNCHANGED lookup

SetCache == \E key \in ApiKeys, data \in Payloads : setCacheCall(key, data)

\* a call of getFromCache(key), with the histories
getFromCacheCall(key) ==
    /\ apiCache' = apiAfterGet(apiCache, key, clock)
    /\ cacheTimestamps' = stampsAfterGet(cacheTimestamps, key, clock)
    /\ lookup' =
          [key |-> key,
           stored |-> key \in apiKeysOf(apiCache),
           age |-> IF key \in apiKeysOf(apiCache)
                   THEN clock - apiEntry(apiCache, key).timestamp ELSE 0,
           returned |-> apiHit(apiCache, key, clock)]
    /\ entered' = [k \in ApiKeys |->
                      IF k \in apiKeysOf(apiCache') THEN entered[k] ELSE 0]
    /\ UNCHANGED <<sets, evicted>>

GetFromCache == \E key \in ApiKeys : getFromCacheCall(key)

\* clearCache (lines 201-204)
apiClearCache ==
    /\ apiCache' = <<>>
    /\ cacheTimestamps' = <<>>
    /\ entered' = [k \in ApiKeys |-> 0]
    /\ UNCHANGED <<sets, evicted, lookup>>

NoLookup == [key |-> NoKey, stored |-> FALSE, age |-> 0, returned |-> FALSE]

\* the constructor (lines 25-26)
ApiCacheInit ==
    /\ apiCache = <<>>
    /\ cacheTimestamps = <<>>
    /\ entered = [k \in ApiKeys |-> 0]
    /\ sets = 0
    /\ evicted = NoKey
    /\ lookup = NoLookup

----------------------------------------------------------------------------
(* The normalization of an upstream page (server.js, lines 695-709, 806-814) *)

\* A property of a page is absent or present. Under "a || b || default" the
\* values undefined, null and '' all fall through, so the end of an optional
\* chain is a string, empty for the three of them; an array is always taken.
\* The localized property names are written in pinyin; a URL is the sequence
\* of its parts.
TextProps ==
    {[present |-> FALSE, items |-> <<>>],
     [present |-> TRUE, items |-> <<>>],
     [present |-> TRUE, items |-> <<[plain_text |-> <<"D", "o", "c", "s">>]>>]}
RichTextProps ==
    {[present |-> FALSE, items |-> <<>>],
     [present |-> TRUE, items |-> <<[plain_text |-> <<"M", "a", "n", "u", "a", "l">>]>>]}
UrlProps ==
    {[present |-> FALSE, url |-> <<>>],
     [present |-> TRUE, url |-> <<>>],
     [present |-> TRUE, url |-> <<"https:", "//", "a.example", "/docs">>],
     [present |-> TRUE, url |-> <<"a.example">>]}
SelectProps ==
    {[present |-> FALSE, name |-> <<>>], [present |-> TRUE, name |-> <<"D", "e", "v">>]}
MultiSelectProps ==
    {[present |-> FALSE, multi_select |-> <<>>],
     [present |-> TRUE, multi_select |-> <<>>],
     [present |-> TRUE, multi_select |-> <<[name |-> <<"x">>]>>]}

Pages ==
    [Name : TextProps, Biaoti : TextProps,
     URL : UrlProps, Lianjie : UrlProps,
     Description : RichTextProps, Miaoshu : RichTextProps,
     Category : SelectProps, Fenlei : SelectProps,
     Tags : MultiSelectProps, Biaoqian : MultiSelectProps]

\* prop?.title?.[0]?.plain_text, prop?.rich_text?.[0]?.plain_text
firstPlainText(prop) ==
    IF prop.present /\ Len(prop.items) > 0 THEN prop.items[1].plain_text ELSE <<>>

\* prop?.url
urlOf(prop) == IF prop.present THEN prop.url ELSE <<>>

\* prop?.select?.name
selectName(prop) == IF prop.present THEN prop.name ELSE <<>>

\* prop?.multi_select?.map(tag => tag.name): no array, or the array of names
tagNames(prop) ==
    IF prop.present
    THEN <<[i \in DOMAIN prop.multi_select |-> prop.multi_select[i].name]>>
    ELSE <<>>

\* a || b for strings: the empty one is falsy
orElse(a, b) == IF a # <<>> THEN a ELSE b

\* new URL(url).hostname: throws unless the text parses as a URL
parsesAsUrl(url) == Len(url) >= 3 /\ url[2] = "//"
hostname(url) == url[3]

\* getFaviconUrl (lines 806-814)
getFaviconUrl(url) ==
    IF url = <<>> THEN <<>>
    ELSE IF parsesAsUrl(url)
    THEN <<"https:", "//", hostname(url), "/favicon.ico">>
    ELSE <<>>

Untitled == <<"[untitled]">>          \* the default title (line 698)
NoCategory == <<"[uncategorized]">>   \* the default category (line 701)
NoUrl == <<"#">>                    \* the default url (line 699)

\* mutant: the icon is taken from the URL property only
normalizePage_iconOfURL(properties) ==
    [title |-> orElse(firstPlainText(properties.Name),
                      orElse(firstPlainText(properties.Biaoti), Untitled)),
     url |-> orElse(urlOf(properties.URL), orElse(urlOf(properties.Lianjie), NoUrl)),
     description |-> orElse(firstPlainText(properties.Description),
                            orElse(firstPlainText(properties.Miaoshu), <<>>)),
     category |-> orElse(selectName(properties.Category),
                         orElse(selectName(properties.Fenlei), NoCategory)),
     tags |-> IF tagNames(properties.Tags) # <<>> THEN tagNames(properties.Tags)[1]
              ELSE IF tagNames(properties.Biaoqian) # <<>>
              THEN tagNames(properties.Biaoqian)[1]
              ELSE <<>>,
     favicon |-> getFaviconUrl(urlOf(properties.URL))]

\* the callback of data.results.map (lines 695-709); id, createdTime and
\* lastEditedTime are copied from the page and left out
normalizePage(properties) ==
    [title |-> orElse(firstPlainText(properties.Name),
                      orElse(firstPlainText(properties.Biaoti), Untitled)),
     url |-> orElse(urlOf(properties.URL), orElse(urlOf(properties.Lianjie), NoUrl)),
     description |-> orElse(firstPlainText(properties.Description),
                            orElse(firstPlainText(properties.Miaoshu), <<>>)),
     category |-> orElse(selectName(properties.Category),
                         orElse(selectName(properties.Fenlei), NoCategory)),
     tags |-> IF tagNames(properties.Tags) # <<>> THEN tagNames(properties.Tags)[1]
              ELSE IF tagNames(properties.Biaoqian) # <<>>
              THEN tagNames(properties.Biaoqian)[1]
              ELSE <<>>,
     favicon |-> getFaviconUrl(orElse(urlOf(properties.URL),
                                      orElse(urlOf(properties.Lianjie), <<>>)))]

EmptyPage ==
    [Name |-> [present |-> FALSE, items |-> <<>>],
     Biaoti |-> [present |-> FALSE, items |-> <<>>],
     URL |-> [present |-> FALSE, url |-> <<>>],
     Lianjie |-> [present |-> FALSE, url |-> <<>>],
     Description |-> [present |-> FALSE, items |-> <<>>],
     Miaoshu |-> [present |-> FALSE, items |-> <<>>],
     Category |-> [present |-> FALSE, name |-> <<>>],
     Fenlei |-> [present |-> FALSE, name |-> <<>>],
     Tags |-> [present |-> FALSE, multi_select |-> <<>>],
     Biaoqian |-> [present |-> FALSE, multi_select |-> <<>>]]

NoBookmark ==
    [title |-> <<>>, url |-> <<>>, description |-> <<>>, category |-> <<>>,
     tags |-> <<>>, favicon |-> <<>>]

\* a page of data.results is turned into a bookmark
Normalize ==
    /\ normalized = NoBookmark
    /\ \E properties \in Pages :
          /\ notionPage' = properties
          /\ normalized' = normalizePage(properties)

\* the map goes on to the next page
NextPage ==
    /\ normalized # NoBookmark
    /\ notionPage' = EmptyPage
    /\ normalized' = NoBookmark

PageInit ==
    /\ notionPage = EmptyPage
    /\ normalized = NoBookmark

----------------------------------------------------------------------------
(* Reloads of the page (public/js/events.js 487-570, 598-604, 879-921;
   public/js/app.js 423-451) *)

Triggers == {"click", "ctrl-r"}

NoEvent == [handler |-> "none", did |-> "none"]
NoCompleted == [called |-> FALSE, bookmarks |-> <<>>, overtaken |-> FALSE]

\* a getBookmarks call awaited by reload() ("sync") or by
\* triggerPullToRefresh ("pull"); overtaken: a call started later has already
\* handed its result to setBookmarks
NewLoad(origin) == [origin |-> origin, overtaken |-> FALSE]

LoadsOf(origin) == {i \in DOMAIN loads : loads[i].origin = origin}

\* mutant: no guard against repeated clicks
ButtonBusy_never == FALSE

\* if (this.uiManager.elements.syncBtn.disabled) return (events.js 489-491)
ButtonBusy == syncBtnDisabled

\* handleSyncData up to its first await (events.js 487-516), with the
\* finally block (565-569) where the try block returns at once; this.app is
\* set when the page is wired up
HandleSyncData ==
    \E trigger \in Triggers :
        IF ButtonBusy
        THEN /\ lastEvent' = [handler |-> trigger, did |-> "returned"]
             /\ UNCHANGED <<syncBtnDisabled, isRefreshing, loads, lastCompleted>>
        ELSE IF ~isOnline
        THEN /\ syncBtnDisabled' = FALSE
             /\ lastEvent' = [handler |-> trigger, did |-> "offline"]
             /\ UNCHANGED <<isRefreshing, loads, lastCompleted>>
        ELSE /\ syncBtnDisabled' = TRUE
             /\ loads' = Append(loads, NewLoad("sync"))
             /\ lastEvent' = [handler |-> trigger, did |-> "reload"]
             /\ UNCHANGED <<isRefreshing, lastCompleted>>

\* the touchend handler (events.js 822-823) and triggerPullToRefresh up to
\* its await (879-892)
TriggerPullToRefresh ==
    /\ ~isRefreshing
    /\ isRefreshing' = TRUE
    /\ loads' = Append(loads, NewLoad("pull"))
    /\ lastEvent' = [handler |-> "pull", did |-> "reload"]
    /\ UNCHANGED <<syncBtnDisabled, lastCompleted>>

\* the loads left when load i is done; when it handed over its result, the
\* loads started before it are overtaken
LoadsAfter(i, handedOver) ==
    LET marked == [j \in DOMAIN loads |->
                      IF handedOver /\ j < i
                      THEN [loads[j] EXCEPT !.overtaken = TRUE] ELSE loads[j]]
    IN  RemoveAt(marked, i)

\* the finally block of handleSyncData (events.js 565-569) when the reload it
\* awaited is over; pull-to-refresh leaves the button alone
ButtonAfter(origin) == IF origin = "sync" THEN FALSE ELSE syncBtnDisabled

\* getBookmarks answers: reload() (app.js 433-439) or triggerPullToRefresh
\* (events.js 892-895) hands the list to setBookmarks, and handleSyncData goes
\* on to its finally block
LoadResolves ==
    \E i \in DOMAIN loads : \E bookmarks \in BookmarkLists :
        /\ setBookmarks(bookmarks)
        /\ loads' = LoadsAfter(i, TRUE)
        /\ lastCompleted' = [called |-> TRUE, bookmarks |-> bookmarks,
                             overtaken |-> loads[i].overtaken]
        /\ syncBtnDisabled' = ButtonAfter(loads[i].origin)
        /\ lastEvent' = [handler |-> loads[i].origin, did |-> "resolved"]
        /\ UNCHANGED isRefreshing

\* getBookmarks throws: reload() rethrows (app.js 443-447) into the catch
\* and finally blocks of handleSyncData; triggerPullToRefresh shows a message
LoadRejects ==
    \E i \in DOMAIN loads :
        /\ loads' = LoadsAfter(i, FALSE)
        /\ syncBtnDisabled' = ButtonAfter(loads[i].origin)
        /\ lastEvent' = [handler |-> loads[i].origin, did |-> "rejected"]
        /\ UNCHANGED <<isRefreshing, lastCompleted>>

\* the 500 ms timer set at the end of triggerPullToRefresh (events.js 897-900)
\* runs resetPullToRefresh
ResetPullToRefresh ==
    /\ isRefreshing
    /\ LoadsOf("pull") = {}
    /\ isRefreshing' = FALSE
    /\ lastEvent' = [handler |-> "pull", did |-> "reset"]
    /\ UNCHANGED <<syncBtnDisabled, loads, lastCompleted>>

AppInit ==
    /\ syncBtnDisabled = FALSE
    /\ isRefreshing = FALSE
    /\ loads = <<>>
    /\ lastEvent = NoEvent
    /\ lastCompleted = NoCompleted

----------------------------------------------------------------------------
(* The search box (public/js/events.js, lines 58-63, 238-292) *)

debounceDelay == 1         \* constants.SEARCH_DEBOUNCE_DELAY: 300 ms, in ticks
MaxInputs == 3             \* input events the model follows

\* e.target.value of an input event
TypedQueries == {<<>>, <<" ">>, <<"G">>, <<"G", "o">>}

NoTimer == [pending |-> FALSE, query |-> <<>>, due |-> 0]
NoInput == [count |-> 0, query |-> <<>>, at |-> 0, burst |-> 0]
NoneApplied == [since |-> 0, query |-> <<>>, at |-> 0]

\* the callback of the timer (lines 252-258) runs: not before its delay
TimerFires ==
    /\ searchDebounceTimer.pending
    /\ clock >= searchDebounceTimer.due
    /\ searchDebounceTimer' = NoTimer
    /\ IF searchQuery # searchDebounceTimer.query
       THEN /\ setSearchQuery(searchDebounceTimer.query)
            /\ searchApplied' = [since |-> searchApplied.since + 1,
                                 query |-> searchDebounceTimer.query,
                                 at |-> clock]
       ELSE UNCHANGED <<dataVars, searchApplied>>
    /\ UNCHANGED lastInput

\* the history of an input event with value query
InputSeen(query) ==
    [count |-> lastInput.count + 1, query |-> query, at |-> clock,
     burst |-> IF lastInput.count > 0 /\ clock - lastInput.at < debounceDelay
               THEN lastInput.burst + 1 ELSE 1]

\* mutant: the search is applied at once
handleSearchInput_nodebounce(query) ==
    /\ lastInput' = InputSeen(query)
    /\ searchDebounceTimer' = NoTimer
    /\ setSearchQuery(query)
    /\ searchApplied' = [since |-> 1, query |-> query, at |-> clock]

\* handleSearchInput (lines 238-259)
handleSearchInput(query) ==
    /\ lastInput' = InputSeen(query)
    /\ IF trim(query) = <<>>
       THEN /\ searchDebounceTimer' = NoTimer
            /\ setSearchQuery(<<>>)
            /\ searchApplied' = [since |-> 1, query |-> <<>>, at |-> clock]
       ELSE /\ searchDebounceTimer' =
                  [pending |-> TRUE, query |-> query, due |-> clock + debounceDelay]
            /\ searchApplied' = NoneApplied
            /\ UNCHANGED dataVars

\* the 'input' listener of the search box (lines 58-63)
SearchTyped ==
    \E query \in TypedQueries :
        /\ lastInput.count < MaxInputs
        /\ handleSearchInput(query)

\* clearSearchInput (lines 271-292), called by the clear button
clearSearchInput ==
    /\ setSearchQuery(<<>>)
    /\ UNCHANGED searchVars

\* handleCategoryClick (lines 295-353) on a menu item, with
\* config.clearFiltersOnCategoryChange = true (line 11): clearSearchInput(),
\* clearTagFilters() (381-385: clearTags()), then setCategory(category), which
\* clears the view cache and filters; the timer of the search box is left as
\* it is. The history notes the input events seen so far.
handleCategoryClick(category) ==
    /\ searchQuery' = trim(toLowerCase(<<>>))
    /\ currentTags' = <<>>
    /\ currentCategory' = category
    /\ Refilter(allBookmarks, category, <<>>, searchQuery', <<>>)
    /\ lastEvent' = [handler |-> "category", did |-> "cleared",
                     inputs |-> lastInput.count]
    /\ UNCHANGED <<allBookmarks, clock, searchVars, syncBtnDisabled,
                   isRefreshing, loads, lastCompleted>>

CategoryClicked == \E category \in CategoryChoices : handleCategoryClick(category)

SearchInit ==
    /\ searchDebounceTimer = NoTimer
    /\ lastInput = NoInput
    /\ searchApplied = NoneApplied

----------------------------------------------------------------------------
(* A manual sync, from the click to the installed bookmarks
   (public/js/events.js 487-570, public/js/app.js 423-451 and 174-197,
   public/js/api.js 207-244) *)

BookmarksUrl == "u1"       \* config.endpoints.bookmarks

\* no body read; also an envelope without success: true
NoBody == [success |-> FALSE, data |-> <<>>]

\* what response.json() gives for an ok response: the endpoint's envelope
\* { success: true, data: [...] }, or a body that does not say success
ResponseBodies ==
    {[success |-> TRUE, data |-> bookmarks] : bookmarks \in BookmarkLists}
        \cup {NoBody}

\* the fetch awaited for getBookmarks settles: Settle, and a returned
\* response has a body
SettleWithBody ==
    /\ Settle
    /\ IF rpc' = "done" /\ result'.ok
       THEN responseBody' \in ResponseBodies
       ELSE UNCHANGED responseBody

\* reload() hands the list to setBookmarks (app.js 433-436)
Installs(bookmarks) ==
    /\ setBookmarks(bookmarks)
    /\ lastCompleted' = [called |-> TRUE, bookmarks |-> bookmarks,
                         overtaken |-> FALSE]

\* if (cachedData) return cachedData (api.js 209-214): an array, even an
\* empty one, is truthy
CachedForSync(key) == apiHit(apiCache, key, clock)

\* handleSyncData (events.js 487-516), reload (app.js 423-433), loadBookmarks
\* (174-176) and getBookmarks (api.js 207-217) up to the first await that
\* waits for the network; a cached payload goes through reload to
\* setBookmarks and the finally blocks run (events.js 565-569)
SyncClicked ==
    \E trigger \in Triggers :
        LET key == getCacheKey(BookmarksUrl)
        IN  IF ButtonBusy
            THEN /\ lastEvent' = [handler |-> trigger, did |-> "returned"]
                 /\ UNCHANGED <<syncBtnDisabled, isRefreshing, loads,
                                lastCompleted, retryVars, apiVars, dataVars,
                                responseBody>>
            ELSE IF ~isOnline
            THEN /\ syncBtnDisabled' = FALSE
                 /\ lastEvent' = [handler |-> trigger, did |-> "offline"]
                 /\ UNCHANGED <<isRefreshing, loads, lastCompleted, retryVars,
                                apiVars, dataVars, responseBody>>
            ELSE IF CachedForSync(key)
            THEN /\ getFromCacheCall(key)
                 /\ Installs(apiEntry(apiCache, key).data)
                 /\ syncBtnDisabled' = FALSE
                 /\ lastEvent' = [handler |-> trigger, did |-> "cached"]
                 /\ UNCHANGED <<isRefreshing, loads, retryVars, responseBody>>
            ELSE /\ sets < MaxSets
                 /\ getFromCacheCall(key)
                 /\ Call
                 /\ syncBtnDisabled' = TRUE
                 /\ lastEvent' = [handler |-> trigger, did |-> "reload"]
                 /\ UNCHANGED <<isRefreshing, loads, lastCompleted, dataVars,
                                responseBody>>

\* mutant: the payload is stored whatever the body says
Succeeded_any == result.ok

\* fetchWithRetry returned a response and data.success holds (api.js 218-222)
Succeeded == result.ok /\ responseBody.success

\* fetchWithRetry is over: getBookmarks stores and returns the payload
\* (api.js 218-229) or throws (230-243), reload installs it or rethrows
\* (app.js 433-450), and handleSyncData ends with its finally block
\* (events.js 518-569)
SyncSettled ==
    /\ syncBtnDisabled
    /\ Reset
    /\ IF Succeeded
       THEN /\ setCacheCall(getCacheKey(BookmarksUrl), responseBody.data)
            /\ Installs(responseBody.data)
            /\ lastEvent' = [handler |-> "sync", did |-> "installed"]
       ELSE /\ lastEvent' = [handler |-> "sync", did |-> "failed"]
            /\ UNCHANGED <<apiVars, dataVars, lastCompleted>>
    /\ syncBtnDisabled' = FALSE
    /\ responseBody' = NoBody
    /\ UNCHANGED <<isRefreshing, loads>>

SyncInit == responseBody = NoBody

----------------------------------------------------------------------------
(* The page of a request: the query parameters parsed (server.js 450-461)
   and the fetched list sliced (526-548) *)

MaxRecords == 5            \* records of the fetched list

defaultPage == 1           \* page = 1 in the destructuring of req.query
defaultLimit == 50         \* limit = 50

\* a JavaScript number: an integer, NaN or Infinity
Num(n) == [kind |-> "int", n |-> n]
NaN == [kind |-> "nan", n |-> 0]
Infinity == [kind |-> "inf", n |-> 0]

\* a query parameter that the request does not carry
Missing == <<"(missing)">>

\* the page and limit parameters of a request
RawPages == {Missing, <<"0">>, <<"-", "1">>, <<"1">>, <<"2">>, <<"3">>,
             <<"a", "b", "c">>}
RawLimits == {Missing, <<"0">>, <<"-", "2">>, <<"1">>, <<"2">>, <<"3">>,
              <<"1", "5", "0">>, <<"2", "x">>, <<>>}

IsDigit(c) == \E d \in 1..10 : DigitChars[d] = c
DigitValue(c) == (CHOOSE d \in 1..10 : DigitChars[d] = c) - 1

\* the digits at the head of a text
RECURSIVE LeadingDigits(_)
LeadingDigits(text) ==
    IF text = <<>> \/ ~IsDigit(Head(text)) THEN <<>>
    ELSE <<Head(text)>> \o LeadingDigits(Tail(text))

RECURSIVE DecimalValue(_)
DecimalValue(digits) ==
    IF digits = <<>> THEN 0
    ELSE 10 * DecimalValue(SubSeq(digits, 1, Len(digits) - 1))
           + DigitValue(digits[Len(digits)])

\* parseInt(text): an optional sign, then the digits at the head of the
\* text; NaN when there is none
parseInt(text) ==
    LET negative == text # <<>> /\ Head(text) = "-"
        digits == LeadingDigits(IF negative THEN Tail(text) ELSE text)
    IN  IF digits = <<>> THEN NaN
        ELSE Num(IF negative THEN 0 - DecimalValue(digits)
                 ELSE DecimalValue(digits))

\* const pageNum = parseInt(page) (line 458)
pageNumOf(page) == IF page = Missing THEN Num(defaultPage) ELSE parseInt(page)

\* const pageSize = Math.min(parseInt(limit), 100) (line 459)
pageSizeOf(limit) ==
    LET parsed == IF limit = Missing THEN Num(defaultLimit) ELSE parseInt(limit)
    IN  IF parsed.kind = "int" THEN Num(PageSizeOf(parsed.n)) ELSE NaN

\* Math.ceil(totalCount / pageSize) (line 528)
totalPagesOf(totalCount, pageSize) ==
    IF pageSize.kind # "int" THEN NaN
    ELSE IF pageSize.n > 0 THEN Num(CeilDiv(totalCount, pageSize.n))
    ELSE IF pageSize.n = 0 THEN (IF totalCount = 0 THEN NaN ELSE Infinity)
    ELSE Num(0 - (totalCount \div (0 - pageSize.n)))

\* pageNum < totalPages (line 547)
LessThan(a, b) ==
    /\ a.kind = "int"
    /\ b.kind # "nan"
    /\ b.kind = "int" => a.n < b.n

\* lines 526-548 for the numbers a query parses to: slice takes NaN as 0
slicePage(bookmarks, pageNum, pageSize) ==
    IF pageNum.kind = "int" /\ pageSize.kind = "int" /\ pageSize.n > 0
    THEN LET p == PageOf(bookmarks, pageNum.n, pageSize.n)
         IN  [bookmarks |-> p.bookmarks, count |-> p.count,
              totalPages |-> Num(p.totalPages), hasMore |-> p.hasMore]
    ELSE LET totalPages == totalPagesOf(Len(bookmarks), pageSize)
             numeric == pageNum.kind = "int" /\ pageSize.kind = "int"
             startIndex == IF numeric THEN (pageNum.n - 1) * pageSize.n ELSE 0
             endIndex == IF numeric THEN startIndex + pageSize.n ELSE 0
             pageBookmarks == Slice(bookmarks, startIndex, endIndex)
         IN  [bookmarks |-> pageBookmarks, count |-> Len(pageBookmarks),
              totalPages |-> totalPages,
              hasMore |-> LessThan(pageNum, totalPages)]

NoPaged ==
    [page |-> Missing, limit |-> Missing, allBookmarks |-> <<>>,
     pageNum |-> NaN, pageSize |-> NaN, sliced |-> FALSE,
     result |-> [bookmarks |-> <<>>, count |-> 0, totalPages |-> NaN,
                 hasMore |-> FALSE]]

\* a request with any page and limit parameters whose fetch returned a list
\* of records 1 .. count: the handler from the parsing to the response
Paginate ==
    \E page \in RawPages, limit \in RawLimits, count \in 0..MaxRecords :
        LET list == [i \in 1..count |-> i]
            pageNum == pageNumOf(page)
            pageSize == pageSizeOf(limit)
        IN  paged' = [page |-> page, limit |-> limit, allBookmarks |-> list,
                      pageNum |-> pageNum, pageSize |-> pageSize,
                      sliced |-> TRUE,
                      result |-> slicePage(list, pageNum, pageSize)]

PagingInit == paged = NoPaged

----------------------------------------------------------------------------
(* BookmarkApp: initialization, the first load and their re-attempts
   (public/js/app.js 7-313) *)

appMaxRetries == 3         \* this.maxRetries
MaxScheduled == 5          \* re-attempts the model follows

\* count: the setTimeout calls for a re-attempt so far; inits: the runs of
\* init(); and of the last error handling: which handler ran, whether the
\* load error was retryable, whether the rendering threw, the setTimeout
\* calls it made and those of them made by scheduleRetry
NoScheduled ==
    [count |-> 0, inits |-> 0, handler |-> "none", retryable |-> FALSE,
     renderThrew |-> FALSE, added |-> 0, retries |-> 0]

\* retryCount, the pending timers and the setTimeout calls made, as one value
\* that the handlers pass on
BootState(count, timers) == [retryCount |-> count, timers |-> timers, added |-> 0, retries |-> 0]

\* mutant: re-attempts are not counted
CanRetry_always(st) == TRUE

\* this.retryCount < this.maxRetries (lines 249, 288, 306)
CanRetry(st) == st.retryCount < appMaxRetries

\* handleInitError (lines 239-257)
handleInitError(st) ==
    IF CanRetry(st)
    THEN [st EXCEPT !.retryCount = st.retryCount + 1,
                    !.timers = Append(st.timers, "init"),
                    !.added = st.added + 1]
    ELSE st

\* scheduleRetry (lines 294-313), up to the setTimeout call
scheduleRetry(st) ==
    [st EXCEPT !.retryCount = st.retryCount + 1,
               !.timers = Append(st.timers, "retry"),
               !.added = st.added + 1,
               !.retries = st.retries + 1]

\* performInitialRender (lines 201-216): updateUI() throws or not
performInitialRender(st, renderThrows) ==
    IF renderThrows THEN handleInitError(st) ELSE st

\* handleDataLoadError (lines 260-291), after its setBookmarks([])
handleDataLoadError(st, retryable, renderThrows) ==
    LET rendered == performInitialRender(st, renderThrows)
    IN  IF retryable /\ CanRetry(rendered) THEN scheduleRetry(rendered)
        ELSE rendered

\* what a handler run leaves: the state and the history
Leaves(st, handler, retryable, renderThrew) ==
    /\ appRetryCount' = st.retryCount
    /\ appTimers' = st.timers
    /\ scheduled' = [count |-> scheduled.count + st.added,
                     inits |-> scheduled.inits,
                     handler |-> handler, retryable |-> retryable,
                     renderThrew |-> renderThrew,
                     added |-> st.added, retries |-> st.retries]

\* how the awaited loadBookmarks() of loadInitialData (lines 128-133) ends
LoadOutcomes ==
    {[ok |-> TRUE, retryable |-> FALSE], [ok |-> FALSE, retryable |-> TRUE],
     [ok |-> FALSE, retryable |-> FALSE]}

\* init() (lines 22-47) with the pending timers `timers`, up to its await:
\* checkRequiredElements() or initializeModules() fails and the catch block
\* calls handleInitError, or loadInitialData() starts
init(timers) ==
    \E setupFails \in BOOLEAN :
        /\ scheduled.count < MaxScheduled
        /\ IF setupFails
           THEN /\ \E st \in {handleInitError(BootState(appRetryCount, timers))} :
                     /\ appRetryCount' = st.retryCount
                     /\ appTimers' = st.timers
                     /\ scheduled' = [count |-> scheduled.count + st.added,
                                      inits |-> scheduled.inits + 1,
                                      handler |-> "init-error",
                                      retryable |-> FALSE,
                                      renderThrew |-> FALSE,
                                      added |-> st.added, retries |-> 0]
                /\ UNCHANGED <<booting, dataVars>>
           ELSE /\ booting' = Append(booting, "init")
                /\ appTimers' = timers
                /\ scheduled' = [scheduled EXCEPT !.inits = scheduled.inits + 1]
                /\ UNCHANGED <<appRetryCount, dataVars>>

\* DOMContentLoaded: the first init()
AppStart ==
    /\ scheduled.inits = 0
    /\ init(appTimers)

\* a timer of handleInitError (lines 253-255) or scheduleRetry (300-312)
\* fires: init() again, or loadInitialData() up to its await
AppTimerFires ==
    \E i \in DOMAIN appTimers :
        IF appTimers[i] = "init"
        THEN init(RemoveAt(appTimers, i))
        ELSE /\ appTimers' = RemoveAt(appTimers, i)
             /\ booting' = Append(booting, "retry")
             /\ UNCHANGED <<appRetryCount, scheduled, dataVars>>

\* the Promise.all of a loadInitialData() settles (lines 128-157): the list
\* is set and rendered, or handleDataLoadError runs; `rejects`: the call
\* itself throws out of its catch or finally block, into the catch block of
\* init() (43-46) or of the timer callback of scheduleRetry (304-311)
LoadSettles ==
    \E i \in DOMAIN booting, outcome \in LoadOutcomes,
       renderThrows \in BOOLEAN, rejects \in BOOLEAN :
        LET st0 == BootState(appRetryCount, appTimers)
            st1 == IF outcome.ok THEN performInitialRender(st0, renderThrows)
                   ELSE handleDataLoadError(st0, outcome.retryable, renderThrows)
            st2 == IF ~rejects THEN st1
                   ELSE IF booting[i] = "init" THEN handleInitError(st1)
                   ELSE IF CanRetry(st1) THEN scheduleRetry(st1)
                   ELSE st1
            handler == IF rejects THEN "rejected"
                       ELSE IF outcome.ok THEN "loaded" ELSE "load-error"
        IN  /\ scheduled.count < MaxScheduled
            /\ booting' = RemoveAt(booting, i)
            /\ IF outcome.ok
               THEN \E bookmarks \in BookmarkLists : setBookmarks(bookmarks)
               ELSE setBookmarks(<<>>)
            /\ Leaves(st2, handler, outcome.retryable, renderThrows)

\* the constructor (lines 9-11)
BootInit ==
    /\ appRetryCount = 0
    /\ appTimers = <<>>
    /\ booting = <<>>
    /\ scheduled = NoScheduled

\* no fetch of the server has succeeded yet
NoSyncKey == <<"none", 0, 0>>

TrackInit == latestSync = NoSyncKey

----------------------------------------------------------------------------
(* Specifications *)

Init ==
    /\ ServerInit /\ RetryInit /\ DataManagerInit /\ ErrorInit /\ ApiCacheInit
    /\ PageInit /\ AppInit /\ SearchInit /\ SyncInit /\ TrackInit
    /\ PagingInit /\ BootInit

\* the server
Next ==
    \/ Request /\ UNCHANGED outsideServer
    \/ FetchStep /\ UNCHANGED outsideServer
    \/ RateSweep /\ UNCHANGED outsideServer
    \/ CacheSweep /\ UNCHANGED outsideServer
    \/ ClearCache /\ UNCHANGED outsideServer
    \/ Tick /\ UNCHANGED outsideServer

Spec == Init /\ [][Next]_vars

\* the event loop runs every settled continuation: an awaited page request
\* settles (it answers, fails, or is aborted after 30 s) and the pause ends
FairSpec == Spec /\ WF_vars(FetchStep /\ UNCHANGED outsideServer)

\* the client's transport
RetryNext ==
    \/ Call /\ UNCHANGED outsideRetry
    \/ Reset /\ UNCHANGED outsideRetry
    \/ Settle /\ UNCHANGED outsideRetry
    \/ DelayElapsed /\ UNCHANGED outsideRetry
    \/ GoOnline /\ UNCHANGED outsideRetry
    \/ GoOffline /\ UNCHANGED outsideRetry

RetrySpec == Init /\ [][RetryNext]_vars

\* an awaited fetch settles (the timer of config.timeout aborts it at the
\* latest) and the timer of a backoff wait fires
RetryFairSpec ==
    /\ RetrySpec
    /\ WF_vars(Settle /\ UNCHANGED outsideRetry)
    /\ WF_vars(DelayElapsed /\ UNCHANGED outsideRetry)

\* The handler against an upstream that fails in every way it can: requests
\* arrive, and the fetch in flight ends with any failure.
FetchFails ==
    \E i \in 1..Len(inflight) : \E outcome \in UpstreamFailures :
        /\ PageResponse(i, outcome)
        /\ upstream' = outcome

Arrives == Request /\ upstream' = NoUpstream

ErrorNext ==
    \/ Arrives /\ UNCHANGED <<retryVars, dataVars, apiVars, pageVars, appVars, searchVars,
     syncVars, trackVars, pagingVars,
     bootVars>>
    \/ FetchFails /\ UNCHANGED <<retryVars, dataVars, apiVars, pageVars, appVars, searchVars,
     syncVars, trackVars, pagingVars,
     bootVars>>

ErrorSpec == Init /\ [][ErrorNext]_vars

\* the page's data manager
DataNext ==
    \/ LoadBookmarks /\ UNCHANGED outsideData
    \/ SelectCategory /\ UNCHANGED outsideData
    \/ ClickTag /\ UNCHANGED outsideData
    \/ clearTags /\ UNCHANGED outsideData
    \/ SearchInput /\ UNCHANGED outsideData
    \/ ClockTick /\ UNCHANGED outsideData

DataSpec == Init /\ [][DataNext]_vars

\* the DataManager over one bookmark set: setBookmarks is called once, on the
\* DataManager as constructed (the first load), or never
AsConstructed == filteredBookmarks = <<>> /\ viewCache = <<>>

FilterNext ==
    \/ AsConstructed /\ LoadBookmarks /\ UNCHANGED outsideData
    \/ SelectCategory /\ UNCHANGED outsideData
    \/ ClickTag /\ UNCHANGED outsideData
    \/ clearTags /\ UNCHANGED outsideData
    \/ SearchInput /\ UNCHANGED outsideData
    \/ ClockTick /\ UNCHANGED outsideData

FilterSpec == Init /\ [][FilterNext]_vars

\* the page's response cache
CacheNext ==
    \/ SetCache /\ UNCHANGED outsideApi
    \/ GetFromCache /\ UNCHANGED outsideApi
    \/ apiClearCache /\ UNCHANGED outsideApi
    \/ ClockTick /\ UNCHANGED outsideData

CacheSpec == Init /\ [][CacheNext]_vars

\* The two response caches. The server's and the page's cache live in different
\* processes and share nothing, so a behaviour follows one of them from the
\* start: the server's while the page's is untouched, or the page's while the
\* server's is.
ServerCacheUntouched == dataCache = <<>> /\ now = 1
ClientCacheUntouched == apiCache = <<>> /\ sets = 0 /\ lookup = NoLookup /\ clock = 0

CachesNext ==
    \/ ClientCacheUntouched /\ GetCached /\ UNCHANGED outsideServer
    \/ ClientCacheUntouched /\ StoreCached /\ UNCHANGED outsideServer
    \/ ClientCacheUntouched /\ CacheSweep /\ UNCHANGED outsideServer
    \/ ClientCacheUntouched /\ ClearCache /\ UNCHANGED outsideServer
    \/ ClientCacheUntouched /\ Tick /\ UNCHANGED outsideServer
    \/ ServerCacheUntouched /\ SetCache /\ UNCHANGED outsideApi
    \/ ServerCacheUntouched /\ GetFromCache /\ UNCHANGED outsideApi
    \/ ServerCacheUntouched /\ apiClearCache /\ UNCHANGED outsideApi
    \/ ServerCacheUntouched /\ ClockTick /\ UNCHANGED outsideData

CachesSpec == Init /\ [][CachesNext]_vars

\* the search box and its timer
SearchNext ==
    \/ SearchTyped /\ UNCHANGED outsideSearch
    \/ TimerFires /\ UNCHANGED outsideSearch
    \/ clearSearchInput /\ UNCHANGED outsideSearch
    \/ ClockTick /\ UNCHANGED outsideData

SearchSpec == Init /\ [][SearchNext]_vars

\* The server with the history of its syncs: every step of the server, and
\* the key that the step's setCache call wrote when the step ended a fetch
\* with success (lines 543-548).
outsideTracked ==
    <<retryVars, dataVars, errorVars, apiVars, pageVars, appVars, searchVars,
     syncVars, pagingVars, bootVars>>

SyncTracked ==
    /\ latestSync' = IF last'.kind = "complete" /\ last'.status = 200
                     THEN cacheKey(last'.pageNum, last'.pageSize)
                     ELSE latestSync
    /\ UNCHANGED outsideTracked

CoherenceNext ==
    \/ Request /\ SyncTracked
    \/ FetchStep /\ SyncTracked
    \/ CacheSweep /\ SyncTracked
    \/ ClearCache /\ SyncTracked
    \/ Tick /\ SyncTracked

CoherenceSpec == Init /\ [][CoherenceNext]_vars

\* the parsing and the slicing of the handler
outsidePaging ==
    <<serverVars, retryVars, dataVars, errorVars, apiVars, pageVars, appVars,
     searchVars, syncVars, trackVars, bootVars>>

PagingNext == Paginate /\ UNCHANGED outsidePaging

PagingSpec == Init /\ [][PagingNext]_vars

\* the application's start and its re-attempts
outsideBoot ==
    <<serverVars, retryVars, errorVars, apiVars, pageVars, appVars,
     searchVars, syncVars, trackVars, pagingVars>>

BootNext ==
    \/ AppStart /\ UNCHANGED outsideBoot
    \/ AppTimerFires /\ UNCHANGED outsideBoot
    \/ LoadSettles /\ UNCHANGED outsideBoot

BootSpec == Init /\ [][BootNext]_vars

\* the search box, its timer and the category menu
CategoryNext ==
    \/ SearchTyped /\ UNCHANGED outsideSearch
    \/ TimerFires /\ UNCHANGED outsideSearch
    \/ CategoryClicked /\ UNCHANGED outsideAppData
    \/ ClockTick /\ UNCHANGED outsideData

CategorySpec == Init /\ [][CategoryNext]_vars

\* the sync button, the transport and the response cache together
outsideSync == <<serverVars, errorVars, pageVars, searchVars, trackVars, pagingVars,
     bootVars>>

SyncNext ==
    \/ SyncClicked /\ UNCHANGED outsideSync
    \/ SettleWithBody
          /\ UNCHANGED <<outsideSync, dataVars, apiVars, appVars>>
    \/ DelayElapsed /\ UNCHANGED outsideRetry
    \/ SyncSettled /\ UNCHANGED outsideSync
    \/ GoOnline /\ UNCHANGED outsideRetry
    \/ GoOffline /\ UNCHANGED outsideRetry
    \/ ClockTick /\ UNCHANGED outsideData

SyncSpec == Init /\ [][SyncNext]_vars

\* the normalization of upstream pages
PageNext ==
    \/ Normalize /\ UNCHANGED outsidePage
    \/ NextPage /\ UNCHANGED outsidePage

PageSpec == Init /\ [][PageNext]_vars

\* the page's reloads: the sync button, Ctrl/Cmd+R, pull-to-refresh
AppNext ==
    \/ HandleSyncData /\ UNCHANGED outsideApp
    \/ TriggerPullToRefresh /\ UNCHANGED outsideApp
    \/ LoadResolves /\ UNCHANGED outsideAppData
    \/ LoadRejects /\ UNCHANGED outsideApp
    \/ ResetPullToRefresh /\ UNCHANGED outsideApp
    \/ GoOnline /\ UNCHANGED outsideRetry
    \/ GoOffline /\ UNCHANGED outsideRetry

AppSpec == Init /\ [][AppNext]_vars

----------------------------------------------------------------------------
(* Properties *)

Syncing == syncState.isSyncing

\* The step properties below are about the handler's steps. Such a step leaves
\* in `last` a reply of kind "request" that names the page and the force flag
\* it was called with, so the step of a reply is looked for among the
\* handler's steps for that page and flag.

InWindow(timestamp, at) == at - timestamp < windowMs

\* C1: at most one fetchAllBookmarks invocation is in flight at any time, and
\* isSyncing is true exactly while one is in flight.
C1_SingleFlight ==
    /\ Len(inflight) <= 1
    /\ Syncing <=> Len(inflight) = 1

C1_Witness ==
    /\ Syncing
    /\ Len(inflight) = 1
    /\ inflight[1].awaiting = "delay"

\* C2: a force_refresh request (admitted by the rate limiter, not marked
\* incremental) that arrives while another request's fetch is in flight is
\* answered 409 and starts no fetchAllBookmarks invocation: the first request's
\* invocation stays the only one.
C2_ConcurrentForce ==
    [][(last'.kind = "request" /\ last'.force)
       => \A clientIP \in ClientIPs, limit \in Limits :
             (/\ HandleRequest(clientIP, last'.pageNum, limit, TRUE, FALSE)
              /\ Len(inflight) >= 1
              /\ ~isRateLimited(clientIP))
             => (/\ last'.status = 409
                 /\ inflight' = inflight
                 /\ Len(inflight') = 1)]_vars

C2_Witness ==
    /\ last.kind = "request"
    /\ last.force
    /\ last.status = 409
    /\ Len(inflight) = 1
    /\ dataCache = <<>>

\* C3: whenever isSyncing is true it eventually becomes false again, whether
\* the fetch returns or throws.
C3_LockReleased == Syncing ~> ~Syncing

C3_Witness ==
    /\ last.kind = "complete"
    /\ last.status \in {401, 408, 503}
    /\ ~Syncing
    /\ inflight = <<>>

C5_RateLimit ==
    [][last'.kind = "request"
       => \A clientIP \in ClientIPs, limit \in Limits, incremental \in BOOLEAN :
             HandleRequest(clientIP, last'.pageNum, limit, last'.force, incremental)
             => (last'.status = 429 <=> Len(AdmitsOf(clientIP)) >= maxRequests)]_vars

\* rejected at the limit, and admitted again once the window has passed
C5_Witness ==
    /\ last.kind = "request"
    /\ last.status # 429
    /\ \E ip \in DOMAIN rateLimitStore :
          /\ Len(rateLimitStore[ip]) = 1
          /\ now >= 1 + windowMs

\* C6: a rate-limited request leaves the cache, the sync state and the set of
\* fetches untouched, even when a valid cached page for it exists; every other
\* request records exactly one timestamp, the current time, for its identity.
C6_RejectFirst ==
    [][last'.kind = "request"
       => \A clientIP \in ClientIPs, limit \in Limits, incremental \in BOOLEAN :
             HandleRequest(clientIP, last'.pageNum, limit, last'.force, incremental)
             => IF last'.status = 429
                THEN /\ UNCHANGED <<dataCache, syncState, inflight>>
                     /\ ~last'.fromCache
                     /\ last'.data = NoData
                ELSE LET old == SelectSeq(StoredRequests(clientIP),
                                          LAMBDA t : InWindow(t, now))
                     IN  rateLimitStore'[clientIP] = Append(old, now)]_vars

C6_Witness ==
    /\ last.kind = "request"
    /\ last.status = 429
    /\ ~last.force
    /\ CacheValid(dataCache, cacheKey(last.pageNum, last.pageSize))

\* every attempt of the call so far ended in the abort of the 30 s timer
AllTimedOut ==
    /\ events # <<>>
    /\ \A i \in 1..Len(events) : events[i] = "timeout"

\* the number of fetch() calls a history of attempts accounts for
Fetched(history) == Len(SelectSeq(history, LAMBDA how : how # "offline"))

\* C7: when every attempt times out, fetchWithRetry makes maxRetries + 1
\* attempts, waits retryDelay * backoffMultiplier^k before retry k
\* (k = 0 .. maxRetries - 1), and then throws an error of type timeout with
\* retryable = true.
C7_TimeoutRetries ==
    (rpc = "done" /\ AllTimedOut)
    => (/\ attempts = maxRetries + 1
        /\ Len(events) = maxRetries + 1
        /\ Len(delays) = maxRetries
        /\ \A k \in 0..(maxRetries - 1) :
              delays[k + 1] = retryDelay * backoffMultiplier ^ k
        /\ ~result.ok
        /\ result.type = "timeout"
        /\ result.retryable)

C7_Witness ==
    /\ rpc = "done"
    /\ AllTimedOut
    /\ Len(delays) = maxRetries
    /\ result.type = "timeout"

\* C8: an attempt that is answered 4xx (408, 409 and 429 included), or that
\* finds the browser offline, ends the call at once: no wait follows it, the
\* error thrown is client resp. offline with retryable = false, and the offline
\* attempt calls fetch() not at all; as the first attempt it leaves one attempt
\* (4xx) resp. none (offline) and no wait.
C8_NonRetryable ==
    /\ \A i \in 1..Len(events) :
          events[i] \in {"http4xx", "offline"}
          => (/\ i = Len(events)
              /\ rpc = "done"
              /\ Len(delays) = i - 1
              /\ ~result.ok
              /\ ~result.retryable
              /\ result.type = (IF events[i] = "http4xx" THEN "client" ELSE "offline"))
    /\ attempts = Fetched(events) + (IF rpc = "fetching" THEN 1 ELSE 0)
    /\ events = <<"http4xx">> => (attempts = 1 /\ delays = <<>>)
    /\ events = <<"offline">> => (attempts = 0 /\ delays = <<>>)

C8_Witness ==
    /\ rpc = "done"
    /\ events = <<"http4xx">>
    /\ attempts = 1
    /\ result.type = "client"

\* the offline case of C8 after two retried attempts
C8_OfflineReached ==
    /\ rpc = "done"
    /\ Len(events) = 3
    /\ events[3] = "offline"
    /\ attempts = 2

\* the bookmarks of the view in filteredBookmarks
Shown ==
    UNION {{filteredBookmarks[g].bookmarks[i] :
                i \in DOMAIN filteredBookmarks[g].bookmarks} :
           g \in DOMAIN filteredBookmarks}

\* the bookmarks of allBookmarks
Loaded == {allBookmarks[i] : i \in DOMAIN allBookmarks}

\* C9: a view that filterBookmarks takes from its cache is the view of the
\* bookmarks now in allBookmarks under the current category, tags and search
\* text: setBookmarks leaves no view of the previous bookmarks to be returned.
C9_NoStaleView ==
    viewFromCache
    => filteredBookmarks
         = computeView(allBookmarks, currentCategory, currentTags, searchQuery)

\* the bookmark passes the category and the search filter
PassesOthers(bookmark) ==
    /\ categoryMatch(bookmark, currentCategory)
    /\ searchMatch(bookmark, searchQuery)

BookmarksIn(view) ==
    UNION {{view[g].bookmarks[i] : i \in DOMAIN view[g].bookmarks} :
           g \in DOMAIN view}

RECURSIVE CountIn(_)
CountIn(view) ==
    IF view = <<>> THEN 0 ELSE Len(Head(view).bookmarks) + CountIn(Tail(view))

\* C11: with no active tag and no search text, setCategory(c) for a concrete
\* category leaves in the view exactly the bookmarks of allBookmarks whose
\* category is c, and setCategory('all') leaves every bookmark of allBookmarks,
\* once, in the group of its own category.
C11_CategoryFilter ==
    [][\A category \in CategoryChoices :
          (/\ setCategory(category)
           /\ currentTags = <<>>
           /\ searchQuery = <<>>)
          => LET view == filteredBookmarks'
             IN  /\ CountIn(view) = Cardinality(BookmarksIn(view))
                 /\ IF category = All
                    THEN /\ BookmarksIn(view) = Loaded
                         /\ \A g \in DOMAIN view :
                               \A i \in DOMAIN view[g].bookmarks :
                                  LET b == view[g].bookmarks[i]
                                  IN  view[g].category
                                        = (IF b.category = <<>> THEN Uncategorized
                                           ELSE b.category)
                    ELSE /\ BookmarksIn(view)
                              = {b \in Loaded : b.category = category}
                         /\ \A g \in DOMAIN view : view[g].category = category]_vars

\* setCategory(Dev) has left the two bookmarks of category Dev
C11_Witness ==
    /\ allBookmarks = <<BmA, BmAB, BmB, BmNone>>
    /\ currentCategory = Dev
    /\ currentTags = <<>>
    /\ searchQuery = <<>>
    /\ ~viewFromCache
    /\ filteredBookmarks = <<[category |-> Dev, bookmarks |-> <<BmA, BmAB>>]>>

\* C14: every 200 answer of GET /api/bookmarks carries data, totalCount,
\* totalPages and hasMore, from a fetch and from the cache alike, and a cache
\* hit repeats the data of the fetch that stored the entry.
C14_SameFields ==
    (last.kind \in {"request", "complete"} /\ last.status = 200)
    => /\ last.hasTotalCount
       /\ last.fromCache
          => LET key == cacheKey(last.pageNum, last.pageSize)
             IN  key \in DOMAIN served => last.data = served[key].data

\* C15: syncState.lastSyncTime changes only in the step in which a fetch
\* completes successfully, and then to the current time: a request answered
\* 429, 304, 409 or from the cache, and a fetch that fails, leave it as it was.
C15_SyncTimeOnSuccess ==
    [][syncState'.lastSyncTime # syncState.lastSyncTime
       => (/\ last'.kind = "complete"
           /\ last'.status = 200
           /\ syncState'.lastSyncTime = now)]_vars

\* a fetch has failed after an earlier one succeeded: the time of the success
\* is still there
C15_Witness ==
    /\ last.kind = "complete"
    /\ last.status \in {401, 408, 503}
    /\ syncState.lastSyncTime # NoSync
    /\ syncState.lastSyncTime < now

\* what is left of a fetch at most: page requests still allowed, twice, plus
\* one while a response is awaited
Remaining(f) ==
    2 * (maxPages - f.pageCount) + (IF f.awaiting = "response" THEN 1 ELSE 0)

C16_ErrorMapping ==
    [][/\ upstream'.kind = "http"
          => /\ last'.kind = "complete"
             /\ last'.status =
                   IF upstream'.status \in {401, 403, 404, 429}
                   THEN upstream'.status
                   ELSE IF upstream'.status \in 500..599 THEN 503 ELSE 500
       /\ upstream'.kind = "abort"
          => (last'.kind = "complete" /\ last'.status = 408)
       /\ (last'.kind = "request" /\ syncState.isSyncing /\ last'.status # 429)
          => last'.status = 409]_vars

\* the upstream refused access and the request was answered 403
C16_Witness ==
    /\ upstream.kind = "http"
    /\ upstream.status = 403
    /\ last.kind = "complete"
    /\ last.status = 403

\* C12: FIFO eviction in the client response cache. When the cache holds
\* clientMaxSize entries, each younger than the TTL, and a payload is set under
\* a key that is not in the cache, exactly the entry that entered the cache
\* earliest is removed and every other entry stays as it was, whichever
\* entries were read in between.
C12_FifoEviction ==
    [][\A key \in ApiKeys :
          (/\ sets' = sets + 1
           /\ key \notin apiKeysOf(apiCache)
           /\ key \in apiKeysOf(apiCache')
           /\ Len(apiCache) = clientMaxSize
           /\ \A i \in DOMAIN apiCache :
                 clock - apiCache[i].timestamp < clientDuration)
          => \E old \in apiKeysOf(apiCache) :
                /\ \A k \in apiKeysOf(apiCache) : entered[old] <= entered[k]
                /\ apiKeysOf(apiCache') = (apiKeysOf(apiCache) \ {old}) \cup {key}
                /\ \A k \in apiKeysOf(apiCache) \ {old} :
                      apiEntry(apiCache', k) = apiEntry(apiCache, k)]_vars

\* the full cache lost, for a new key, the entry that had been read last
C12_Witness ==
    /\ evicted # NoKey
    /\ evicted \notin apiKeysOf(apiCache)
    /\ Len(apiCache) = clientMaxSize
    /\ \A i \in DOMAIN apiCache : clock - apiCache[i].timestamp < clientDuration
    /\ lookup.returned
    /\ lookup.key = evicted

\* C13: a lookup of a stored key returns the entry iff now - timestamp < TTL;
\* an entry whose age is equal to or greater than the TTL is never returned.
C13_TTLValidity ==
    lookup.stored => (lookup.returned <=> lookup.age < clientDuration)

\* the same values moved from the localized names to the default names
UnderDefaultNames(properties) ==
    [Name |-> properties.Biaoti, Biaoti |-> EmptyPage.Biaoti,
     URL |-> properties.Lianjie, Lianjie |-> EmptyPage.Lianjie,
     Description |-> properties.Miaoshu, Miaoshu |-> EmptyPage.Miaoshu,
     Category |-> properties.Fenlei, Fenlei |-> EmptyPage.Fenlei,
     Tags |-> properties.Biaoqian, Biaoqian |-> EmptyPage.Biaoqian]

OnlyLocalized(properties) ==
    /\ ~properties.Name.present
    /\ ~properties.URL.present
    /\ ~properties.Description.present
    /\ ~properties.Category.present
    /\ ~properties.Tags.present

\* C18: normalization is alias-independent. A page that carries its values
\* only under the localized names becomes the same bookmark (title, url,
\* description, category, tags, favicon) as the page that carries those values
\* under the default names, and a field absent under both names takes its
\* default.
C18_AliasIndependent ==
    normalized # NoBookmark
    => /\ OnlyLocalized(notionPage)
          => normalized = normalizePage(UnderDefaultNames(notionPage))
       /\ (~notionPage.Name.present /\ ~notionPage.Biaoti.present)
          => normalized.title = Untitled
       /\ (~notionPage.URL.present /\ ~notionPage.Lianjie.present)
          => (normalized.url = NoUrl /\ normalized.favicon = <<>>)
       /\ (~notionPage.Description.present /\ ~notionPage.Miaoshu.present)
          => normalized.description = <<>>
       /\ (~notionPage.Category.present /\ ~notionPage.Fenlei.present)
          => normalized.category = NoCategory
       /\ (~notionPage.Tags.present /\ ~notionPage.Biaoqian.present)
          => normalized.tags = <<>>

\* a page with localized names only, all of them filled in, was normalized
C18_Witness ==
    /\ OnlyLocalized(notionPage)
    /\ normalized.title = <<"D", "o", "c", "s">>
    /\ normalized.url = <<"https:", "//", "a.example", "/docs">>
    /\ normalized.description = <<"M", "a", "n", "u", "a", "l">>
    /\ normalized.category = <<"D", "e", "v">>
    /\ normalized.tags = <<<<"x">>>>
    /\ normalized.favicon = <<"https:", "//", "a.example", "/favicon.ico">>

\* C19: while a reload started by handleSyncData is in flight the sync button
\* stays disabled and there is one such reload only; a further handleSyncData
\* invocation, by click or by Ctrl/Cmd+R, starts no reload and leaves the
\* button disabled; when the reload ends, resolved or rejected, the button is
\* enabled again.
C19_SyncSingleFlight ==
    [][/\ LoadsOf("sync") # {} => syncBtnDisabled
       /\ Cardinality(LoadsOf("sync")) <= 1
       /\ (LoadsOf("sync") # {} /\ lastEvent' # lastEvent
           /\ lastEvent'.handler \in Triggers)
          => /\ lastEvent'.did = "returned"
             /\ loads' = loads
             /\ syncBtnDisabled'
       /\ (LoadsOf("sync") # {} /\ loads' # loads /\ lastEvent'.handler = "sync"
           /\ lastEvent'.did \in {"resolved", "rejected"})
          => (~syncBtnDisabled' /\ \A i \in DOMAIN loads' : loads'[i].origin # "sync")
       /\ (syncBtnDisabled /\ ~syncBtnDisabled')
          => (lastEvent'.handler = "sync"
              /\ lastEvent'.did \in {"resolved", "rejected"})]_vars

\* Ctrl/Cmd+R was pressed during a reload, offline: the call returned, the
\* reload is still the only one and the button is still disabled
C19_Witness ==
    /\ lastEvent = [handler |-> "ctrl-r", did |-> "returned"]
    /\ Cardinality(LoadsOf("sync")) = 1
    /\ syncBtnDisabled
    /\ ~isOnline

\* C20: last completion wins. After any interleaving of overlapping loads,
\* getAllBookmarks returns exactly the list passed to the setBookmarks call
\* that completed most recently, also when that call belongs to an older load
\* that a newer one has overtaken.
C20_LastCompletionWins ==
    lastCompleted.called => allBookmarks = lastCompleted.bookmarks

\* an overtaken load completed last, and its list replaced the newer one
C20_Witness ==
    /\ lastCompleted.called
    /\ lastCompleted.overtaken
    /\ lastCompleted.bookmarks = <<>>
    /\ allBookmarks = <<>>
    /\ loads = <<>>

\* the bookmark passes the category, tag and search filters now set
PassesFilters(b) ==
    /\ categoryMatch(b, currentCategory)
    /\ tagMatch(b, currentTags)
    /\ searchMatch(b, searchQuery)

\* the places (group, index) at which the view lists the bookmark
PlacesOf(view, b) ==
    UNION {{<<g, i>> : i \in {j \in DOMAIN view[g].bookmarks :
                                   view[g].bookmarks[j] = b}} :
           g \in DOMAIN view}

\* C21: in 'all' mode the view in filteredBookmarks is a list of groups in
\* ascending order of category with the uncategorized group last, and every
\* bookmark of allBookmarks that passes the current filters is listed exactly
\* once, in the group of its own category.
C21_GroupedView ==
    currentCategory = All
    => /\ \A g, h \in DOMAIN filteredBookmarks :
             g < h => sortBefore(filteredBookmarks[g].category,
                                 filteredBookmarks[h].category)
       /\ \A b \in Loaded :
             PassesFilters(b)
             => /\ Cardinality(PlacesOf(filteredBookmarks, b)) = 1
                /\ \A pl \in PlacesOf(filteredBookmarks, b) :
                      filteredBookmarks[pl[1]].category = GroupOf(b)

\* C22: bounded caches. After any sequence of cache operations the server's
\* dataCache holds at most maxSize entries and the page's ApiService cache at
\* most config.cache.maxSize entries.
C22_BoundedCaches ==
    /\ Len(dataCache) <= maxSize
    /\ Len(apiCache) <= clientMaxSize

\* the server's cache is full and no longer holds the first page stored: a
\* key beyond its capacity was set
C22_Witness ==
    /\ Len(dataCache) = maxSize
    /\ \A pageNum \in 1 .. maxSize : cacheKey(pageNum + 1, 1) \in CacheKeys(dataCache)

\* C23: a set evicts an entry only when the insert would otherwise make the
\* cache exceed maxSize: a set of a key that is already present, or into a
\* cache that is not full, removes no entry (on the page, none but the expired
\* ones its sweep removes), on the server and on the page.
C23_EvictsOnlyForRoom ==
    [][/\ \A pageNum \in CachePages :
             LET key == cacheKey(pageNum, 1)
             IN  dataCache' = setCache(dataCache, key, PageOf(<<>>, pageNum, 1))
                 => \/ CacheKeys(dataCache) \subseteq CacheKeys(dataCache')
                    \/ /\ key \notin CacheKeys(dataCache)
                       /\ Len(dataCache) = maxSize
       /\ \A key \in ApiKeys, data \in Payloads :
             LET swept == cleanupCache(apiCache, clock)
             IN  (sets' = sets + 1 /\ apiCache' = apiSetCache(apiCache, key, data, clock))
                 => \/ apiKeysOf(swept) \subseteq apiKeysOf(apiCache')
                    \/ /\ key \notin apiKeysOf(swept)
                       /\ Len(swept) = clientMaxSize]_vars

\* the keys of the entries whose age has reached the TTL, and of the others
ExpiredKeys(c, t) == {c[i].key : i \in {j \in DOMAIN c : t - c[j].timestamp >= clientDuration}}
UnexpiredKeys(c, t) == apiKeysOf(c) \ ExpiredKeys(c, t)

\* C24: ApiService.setCache sweeps before it checks the capacity. A set of a
\* new key into a full cache that holds an expired entry removes the expired
\* entries and keeps every unexpired one, and no set removes more than one
\* unexpired entry.
C24_SweepBeforeEvict ==
    [][\A key \in ApiKeys, data \in Payloads :
          (sets' = sets + 1 /\ apiCache' = apiSetCache(apiCache, key, data, clock))
          => /\ (/\ Len(apiCache) = clientMaxSize
                 /\ ExpiredKeys(apiCache, clock) # {}
                 /\ key \notin apiKeysOf(apiCache))
                => /\ ExpiredKeys(apiCache, clock) \cap apiKeysOf(apiCache') = {}
                   /\ UnexpiredKeys(apiCache, clock) \subseteq apiKeysOf(apiCache')
             /\ Cardinality(UnexpiredKeys(apiCache, clock) \ apiKeysOf(apiCache')) <= 1]_vars

\* no timestamp of the list is older than windowMs at time t
NoneOlder(requests, t) ==
    \A i \in DOMAIN requests : t - requests[i] <= windowMs

\* C25: the list of timestamps stored for a client identity never holds more
\* than maxRequests entries; right after a rate-limit check the list of the
\* checked identity, and right after a background sweep every list, holds no
\* timestamp older than windowMs.
C25_BoundedTimestamps ==
    [][/\ \A ip \in DOMAIN rateLimitStore' : Len(rateLimitStore'[ip]) <= maxRequests
       /\ last'.kind = "request"
          => \A clientIP \in ClientIPs :
                rateLimitStore' = RateStoreAfter(clientIP)
                => NoneOlder(rateLimitStore'[clientIP], now')
       /\ (rateLimitStore' = RateSweepResult
           /\ UNCHANGED <<now, dataCache, syncState, inflight, served, admits>>)
          => \A ip \in DOMAIN rateLimitStore' : NoneOlder(rateLimitStore'[ip], now')]_vars

\* a check at the limit: the request was rejected and the list holds
\* maxRequests timestamps, the first from an earlier tick
C25_Witness ==
    /\ last.kind = "request"
    /\ last.status = 429
    /\ \E ip \in DOMAIN rateLimitStore :
          /\ Len(rateLimitStore[ip]) = maxRequests
          /\ rateLimitStore[ip][1] < now

\* the type classifyError gives to the failure the history names
Classified(how) ==
    CASE how = "timeout" -> "timeout"
      [] how = "network" -> "network"
      [] how = "http5xx" -> "server"
      [] how = "http4xx" -> "client"
      [] how = "offline" -> "offline"
      [] OTHER -> "unknown"

RetriedTypes == {"timeout", "network", "server"}

\* the attempts of the call so far: no more than maxRetries + 1, every one but
\* the last a failure classified timeout, network or server; a finished call
\* ended with a success, with a failure of another type or with attempt
\* maxRetries + 1, and threw the classification of that last failure
RetryHistory ==
    /\ Len(events) <= maxRetries + 1
    /\ attempts <= maxRetries + 1
    /\ \A i \in 1 .. Len(events) - 1 : Classified(events[i]) \in RetriedTypes
    /\ rpc = "waiting" => Classified(events[Len(events)]) \in RetriedTypes
    /\ rpc = "done"
       => LET lastHow == events[Len(events)]
          IN  IF lastHow = "ok"
              THEN result.ok
              ELSE /\ ~result.ok
                   /\ result.type = Classified(lastHow)
                   /\ \/ Classified(lastHow) \notin RetriedTypes
                      \/ Len(events) = maxRetries + 1

\* C26: for every sequence of outcomes fetchWithRetry makes at most
\* maxRetries + 1 attempts, retries only after failures classified timeout,
\* network or server, stops at the first success or first failure of another
\* type, throws the classification of the last attempt's failure, and every
\* call terminates.
C26_RetryTerminates ==
    /\ []RetryHistory
    /\ (rpc \in {"fetching", "waiting"}) ~> (rpc = "done")

\* three retried failures of the three types, then a fourth failure, thrown
\* as it is classified
C26_Witness ==
    /\ rpc = "done"
    /\ events = <<"http5xx", "network", "timeout", "http5xx">>
    /\ attempts = maxRetries + 1
    /\ Len(delays) = maxRetries
    /\ result.type = "server"

\* C27: the server never retries an upstream failure. In the step in which a
\* page request of a fetchAllBookmarks call fails, the call ends (it is no
\* longer in flight, so it sends no further page request, and no other call
\* is started), the handler answers with the status of the classified error
\* and without data, and dataCache is left as it was, whatever the call had
\* fetched before.
C27_NoRetryNoPartial ==
    [][\A i \in DOMAIN inflight :
          inflight[i].awaiting = "response"
          => \A outcome \in FailedPages :
                PageResponse(i, outcome)
                => /\ inflight' = RemoveAt(inflight, i)
                   /\ last'.kind = "complete"
                   /\ last'.status = ErrorStatus(outcome)
                   /\ last'.status >= 400
                   /\ last'.data = NoData
                   /\ ~last'.fromCache
                   /\ dataCache' = dataCache]_vars

\* a fetch for a page that is not cached has failed with 401 while the
\* cache holds another page: the cache still holds just that page
C27_Witness ==
    /\ last.kind = "complete"
    /\ last.status = 401
    /\ Len(dataCache) = 1
    /\ cacheKey(last.pageNum, last.pageSize) \notin CacheKeys(dataCache)
    /\ ~syncState.isSyncing

\* C28 as claimed: while isSyncing is true, a request that is not forced and
\* has a valid cache entry is answered from the cache with fromCache = true,
\* and every other request is answered 409 in the same step and starts or
\* queues nothing.
C28_StepOrder ==
    [][(last'.kind = "request" /\ Syncing)
       => IF /\ ~last'.force
             /\ CacheValid(dataCache, cacheKey(last'.pageNum, last'.pageSize))
          THEN /\ last'.status = 200
               /\ last'.fromCache
          ELSE /\ last'.status = 409
               /\ inflight' = inflight]_vars

\* C28 (amended): while isSyncing is true, a request that the rate limiter
\* admits and that is not forced and has a valid cache entry is answered from
\* the cache with fromCache = true; an admitted request that is forced or has
\* no valid cache entry is answered 409 in the same step and starts or queues
\* nothing, unless it is an incremental request less than incrementalMs after
\* the last completed sync, which is answered 304.
C28_AdmittedStepOrder ==
    [][(last'.kind = "request" /\ Syncing)
       => \A clientIP \in ClientIPs, limit \in Limits, incremental \in BOOLEAN :
             (/\ HandleRequest(clientIP, last'.pageNum, limit, last'.force, incremental)
              /\ ~isRateLimited(clientIP))
             => LET key == cacheKey(last'.pageNum, last'.pageSize)
                IN  IF ~last'.force /\ CacheValid(dataCache, key)
                    THEN /\ last'.status = 200
                         /\ last'.fromCache
                         /\ last'.data = CacheEntry(dataCache, key).data.bookmarks
                         /\ UNCHANGED <<inflight, syncState, dataCache>>
                    ELSE IF SkipIncremental(incremental)
                    THEN /\ last'.status = 304
                         /\ UNCHANGED <<inflight, syncState>>
                    ELSE /\ last'.status = 409
                         /\ UNCHANGED <<inflight, syncState>>]_vars

\* a page was answered from the cache while the fetch for another page is
\* in flight
C28_Witness ==
    /\ last.kind = "request"
    /\ last.status = 200
    /\ last.fromCache
    /\ Syncing
    /\ Len(inflight) = 1
    /\ inflight[1].pageNum # last.pageNum

\* C29 as claimed: after a non-empty input event setSearchQuery is called at
\* most once before the next input event, with the value of that event and
\* not before debounceDelay has passed since it, so a burst of events less
\* than debounceDelay apart gets one call, for its last event; after an
\* empty input event no timer is pending and the search text is empty.
C29_Debounce ==
    lastInput.count > 0
    => IF lastInput.query # <<>>
       THEN /\ searchApplied.since <= 1
            /\ searchApplied.since = 1
               => /\ searchApplied.query = lastInput.query
                  /\ searchApplied.at >= lastInput.at + debounceDelay
       ELSE /\ ~searchDebounceTimer.pending
            /\ searchQuery = <<>>

\* C29 (amended): the same with "empty" read as "empty after trimming": the
\* debounce holds for events whose value is not blank, and an event whose
\* value is empty or only white space leaves no timer pending and the search
\* text empty.
C29_DebounceNonBlank ==
    lastInput.count > 0
    => IF trim(lastInput.query) # <<>>
       THEN /\ searchApplied.since <= 1
            /\ searchApplied.since = 1
               => /\ searchApplied.query = lastInput.query
                  /\ searchApplied.at >= lastInput.at + debounceDelay
       ELSE /\ ~searchDebounceTimer.pending
            /\ searchQuery = <<>>

\* two input events less than debounceDelay apart, and one setSearchQuery
\* call, made for the second after the delay
C29_Witness ==
    /\ lastInput.burst = 2
    /\ lastInput.query = <<"G", "o">>
    /\ searchApplied.since = 1
    /\ searchApplied.query = <<"G", "o">>
    /\ searchQuery = <<"g", "o">>
    /\ ~searchDebounceTimer.pending

\* C30: for a fixed bookmark set, after any sequence of setCategory,
\* toggleTag, clearTags and setSearchQuery calls the view in filteredBookmarks
\* is the view computed from allBookmarks, the current category, the current
\* tags and the current search text, also when the view came from the cache
\* under a key that another filter state shares.
C30_ViewOfCurrentFilters ==
    filteredBookmarks # <<>>
    => filteredBookmarks
         = computeView(allBookmarks, currentCategory, currentTags, searchQuery)

\* C31: a manual sync that installs a bookmark set has got it from
\* fetchWithRetry: the step that installs it takes the body of the response
\* the call returned, and does not take a payload stored on the client.
C31_SyncAsksServer ==
    [][lastEvent' # lastEvent /\ lastEvent'.did \in {"cached", "installed"}
          => /\ rpc = "done" /\ result.ok
             /\ allBookmarks' = responseBody.data]_vars

\* C32: after a category click that cleared the filters, and as long as no
\* input event of the search box has followed it, the search text of the
\* DataManager is empty: a search scheduled before the click is not applied
\* after it.
C32_ClearedStaysCleared ==
    lastEvent.handler = "category" /\ lastInput.count = lastEvent.inputs
        => searchQuery = <<>>

\* C33: once a fetch has completed with success, a request answered from the
\* cache is answered from the page that this latest fetch stored: a page that
\* an earlier fetch stored is not served any more.
C33_SyncSupersedesAll ==
    [][/\ last'.kind = "request" /\ last'.status = 200 /\ last'.fromCache
       /\ latestSync # NoSyncKey
       => cacheKey(last'.pageNum, last'.pageSize) = latestSync]_vars

\* the least number of pages of size s that hold n records
PagesFor(n, s) == CHOOSE k \in 0..n : k * s >= n /\ (k = 0 \/ (k - 1) * s < n)

\* the records at positions from .. to of a list
Positions(list, from, to) ==
    [i \in 1..(IF to < from THEN 0 ELSE to - from + 1) |-> list[from + i - 1]]

RECURSIVE PagesUpTo(_, _, _)
PagesUpTo(list, s, q) ==
    IF q = 0 THEN <<>>
    ELSE PagesUpTo(list, s, q - 1) \o PageOf(list, q, s).bookmarks

\* C34: for a fetched list of n records, a page p >= 1 and a page size s in
\* 1..100, the response holds the records at positions (p-1)*s+1 ..
\* min(p*s, n), totalPages is ceil(n/s), hasMore holds iff p < totalPages,
\* and the pages 1..totalPages put end to end are the list.
C34_Pagination ==
    LET n == Len(paged.allBookmarks)
        p == paged.pageNum.n
        s == paged.pageSize.n
        r == paged.result
    IN  /\ paged.sliced
        /\ paged.pageNum.kind = "int" /\ p >= 1
        /\ paged.pageSize.kind = "int" /\ s >= 1 /\ s <= limitCap
        => /\ r.bookmarks
                = Positions(paged.allBookmarks, (p - 1) * s + 1, Min(p * s, n))
           /\ r.totalPages = Num(PagesFor(n, s))
           /\ r.hasMore <=> p < PagesFor(n, s)
           /\ PagesUpTo(paged.allBookmarks, s, PagesFor(n, s))
                = paged.allBookmarks

\* the second of three pages of two records, the third being short
C34_Witness ==
    /\ paged.sliced
    /\ Len(paged.allBookmarks) = 5
    /\ paged.pageNum = Num(2) /\ paged.pageSize = Num(2)
    /\ paged.result.bookmarks = <<3, 4>>
    /\ paged.result.totalPages = Num(3)
    /\ paged.result.hasMore

\* C35: whatever page and limit a request carries, the page number used for
\* the slice and the key is an integer >= 1 and the page size an integer in
\* 1..100.
C35_EffectiveParameters ==
    paged.sliced
    => /\ paged.pageNum.kind = "int" /\ paged.pageNum.n >= 1
       /\ paged.pageSize.kind = "int"
       /\ paged.pageSize.n >= 1 /\ paged.pageSize.n <= limitCap

C37_NoEmptyGroup ==
    currentCategory = All
        => \A i \in DOMAIN filteredBookmarks :
               filteredBookmarks[i].bookmarks # <<>>

\* C38: a run of the cache sweep leaves every entry that a lookup in that
\* moment returns, with its data and timestamp, and a run of the rate-limit
\* sweep leaves every timestamp inside the window, so that no identity is
\* admitted after the sweep that was rejected before it.
C38_SweepsOnlyStale ==
    [][/\ CacheSweep
          => \A key \in CacheKeys(dataCache) :
                 CacheValid(dataCache, key)
                 => /\ key \in CacheKeys(dataCache')
                    /\ CacheEntry(dataCache', key) = CacheEntry(dataCache, key)
       /\ RateSweep
          => \A ip \in DOMAIN rateLimitStore :
                 LET inside == SelectSeq(rateLimitStore[ip],
                                         LAMBDA t : InWindow(t, now))
                 IN  inside # <<>>
                     => /\ ip \in DOMAIN rateLimitStore'
                        /\ SelectSeq(rateLimitStore'[ip],
                                     LAMBDA t : InWindow(t, now)) = inside]_vars

\* the cache holds an entry past its time next to one that a lookup
\* returns: a sweep now removes the first and has to leave the second
C38_Witness ==
    /\ \E key \in CacheKeys(dataCache) : CacheValid(dataCache, key)
    /\ CacheSweepResult(dataCache) # dataCache
    /\ rateLimitStore # <<>>

\* C39: getBookmarks stores a payload in the client cache only after a
\* response that is HTTP ok and says success = true; a request that fails
\* leaves both Maps as they were when it was made; a get on an expired key
\* removes the key from both Maps; and the two Maps hold the same keys, set at
\* the same times, in every state.
SameKeys ==
    [i \in DOMAIN apiCache |->
        [key |-> apiCache[i].key, timestamp |-> apiCache[i].timestamp]]
      = cacheTimestamps

Stored(key) ==
    /\ key \in apiKeysOf(apiCache')
    /\ \/ key \notin apiKeysOf(apiCache)
       \/ apiEntry(apiCache', key) # apiEntry(apiCache, key)

C39_CacheOnlyOnSuccess ==
    /\ []SameKeys
    /\ [][/\ \A key \in ApiKeys :
                Stored(key) => /\ rpc = "done" /\ result.ok
                               /\ responseBody.success
                               /\ key = getCacheKey(BookmarksUrl)
                               /\ apiEntry(apiCache', key).data = responseBody.data
          /\ (rpc # "idle" \/ (lastEvent' # lastEvent /\ lastEvent'.did = "failed"))
                /\ ~(rpc = "done" /\ result.ok /\ responseBody.success)
                => UNCHANGED <<apiCache, cacheTimestamps>>
          /\ lookup' # lookup /\ lookup'.stored /\ ~lookup'.returned
                => /\ lookup'.key \notin apiKeysOf(apiCache')
                   /\ lookup'.key \notin apiKeysOf(cacheTimestamps')]_vars

\* a failed sync after an earlier payload had been stored, expired and removed
C39_Witness ==
    /\ lastEvent.handler = "sync" /\ lastEvent.did = "failed"
    /\ sets > 0
    /\ lookup.stored /\ ~lookup.returned
    /\ apiCache = <<>> /\ cacheTimestamps = <<>>

====
